---- MODULE Spec2Model ----
(***************************************************************************)
(* CodeMemory semantic memory engine: the local embedding generator        *)
(* (src/vectorstore/embeddings.ts), the in-memory vector store with its    *)
(* JSON snapshot (src/vectorstore/memoryVectorStore.ts) and the context    *)
(* manager's interaction ledger (src/context/contextManager.ts).           *)
(*                                                                         *)
(* Representation.                                                         *)
(*  - A text is a sequence of lexemes: maximal runs of word characters     *)
(*    (\w+) and single punctuation marks; white space is what separates    *)
(*    two neighbouring lexemes.  Chars gives the characters of a lexeme.   *)
(*  - A token is the sequence of its characters.                           *)
(*  - Numbers that are IEEE doubles in the program are fixed-point         *)
(*    integers in thousandths (Unit); Math.log is a table in thousandths,  *)
(*    Math.sqrt the integer square root.                                   *)
(*  - A 384-slot vector is the function from its non-zero slots to their   *)
(*    values; every other slot is 0.                                       *)
(*  - A Map is the sequence of its [key, value] entries in insertion order. *)
(***************************************************************************)
EXTENDS Integers, Sequences, FiniteSets, TLC

\* ------------------------------------------------------------------ bounds
\* Number of calls made on the store in one behaviour.
MaxCalls == 2
\* Largest k handed to search / getRelatedChunks.
MaxK == 2

\* Longest item list of a persisted file the constructors are started on.
MaxItems == 2
\* The cap of the memory ledger: maxMemoryEntries is 1000 in the program; the
\* model runs the same code with a cap that a short behaviour can exceed.
maxMemoryEntries == 3

\* ------------------------------------------------------ program constants
dimension == 384
\* Fixed-point scale: one thousandth.
Unit == 10 * 10 * 10

\* ------------------------------------------------------------ sequences
Range(s) == {s[i] : i \in 1..Len(s)}

\* A function or sequence given by a rule, evaluated to its table.
Tabulate(f) == f @@ <<>>

\* A slice that takes one element too many.
SliceThrough(s, k) == SubSeq(s, 1, IF k + 1 < Len(s) THEN k + 1 ELSE Len(s))

\* Array.prototype.slice(0, k).
Slice(s, k) == SubSeq(s, 1, IF k < Len(s) THEN k ELSE Len(s))


\* Number of getRelevantContext calls in one behaviour.
MaxContexts == 2

\* Number of questions recorded in the ledger in one behaviour.
MaxQuestions == 6

\* How many intervals the status bar makes.
MaxTimers == 2

\* The length of the ranked result lists handed to buildContext.
MaxResults == 3
\* ----------------------------------------------------------------- state
VARIABLES
  chunks,        \* MemoryVectorStore.chunks
  vocabulary,    \* EmbeddingGenerator.vocabulary
  idfScores,     \* EmbeddingGenerator.idfScores
  documents,     \* EmbeddingGenerator.documents
  disk,          \* the file at persistencePath
  initialized,   \* whether initialize() has been called on this store
  call,          \* the last call made on the store and how it came back
  microtasks,    \* the continuations of calls suspended at their await, oldest first
  memoryEntries, \* ContextManager.memoryEntries
  ledgerFile,    \* the file .codememory/memory.json
  clock,         \* the time new Date() reads, in milliseconds
  nanoids,       \* how many ids nanoid() has handed out
  ledgerCall,    \* the last call made on the context manager
  configuration, \* the settings codememory.llmProvider, apiKey and autoIndex
  workspaceFolder, \* whether vscode.workspace.workspaceFolders holds a folder
  registered,    \* the command ids registered with vscode.commands
  activation,    \* how activate() came back, "none" before it is called
  watching,      \* whether the file system watcher of setupFileWatchers is set up
  autoIndexing,  \* whether the indexWorkspace() started by activation is still to run
  files,         \* the version of every workspace file, 0 when it does not exist
  parses,        \* how many ids nanoid() has handed to parsed chunks
  handled,       \* the last watcher event handled and the chunks parsed for it
  progress,      \* CodeIndexer.progress
  snapshots,     \* what the last indexWorkspace run handed to the progress callback
  statusBar,     \* the StatusBarManager, its item's text and its running intervals
  contextCache,  \* ContextManager.contextCache
  projectContext, \* ContextManager.projectContext
  context,       \* what the last getRelevantContext returned
  computed,      \* the last chunk handed to the semantic-context functions and what they gave
  globalVectorStore \* the chunk Map of the store initializeExtension builds for the
                 \* context manager and the analyzers

storeVars == <<chunks, vocabulary, idfScores, documents, disk, initialized, call, microtasks>>

ledgerVars == <<memoryEntries, ledgerFile, clock, nanoids, ledgerCall>>

extensionVars == <<configuration, workspaceFolder, registered, activation, watching,
                   autoIndexing, files, parses, handled, progress, snapshots,
                   statusBar>>

contextVars == <<contextCache, projectContext, context, computed, globalVectorStore>>

vars == <<storeVars, ledgerVars, extensionVars, contextVars>>

\* The strings of the model: the words of the texts and the keywords of
\* addSemanticFeatures.
Lexicon ==
  {"Type", "Name", "Language", "File", "Signature", "Documentation",
   "Code", "similar", "to", "function", "class", "typescript", "m", "ts",
   "a", "b", "ab", "a_b", "Class", "controllers", "models", "views",
   "Controller", "Model", "View", "repository", "repositories",
   "Repository", "Repo", "services", "service", "Service", "Manager",
   "factory", "factories", "Factory", "Creator", "def", "func", "method",
   "struct", "interface", "import", "require", "include", "from", "export",
   "module.exports", "public", "async", "await", "promise", "then",
   "return", "yield", "if", "else", "switch", "case", "for", "while",
   "foreach", "map", "try", "catch", "throw", "error", "const", "let",
   "var", "val", "new", "constructor", "init", "get", "set", "getter",
   "setter", "api", "endpoint", "route", "rest", "test", "spec",
   "describe", "it", "expect", "database", "query", "sql", "select"}

\* The characters of a string.
spell(s) ==
  CASE    s = "Type" -> <<"T", "y", "p", "e">>
       [] s = "Name" -> <<"N", "a", "m", "e">>
       [] s = "Language" -> <<"L", "a", "n", "g", "u", "a", "g", "e">>
       [] s = "File" -> <<"F", "i", "l", "e">>
       [] s = "Signature" -> <<"S", "i", "g", "n", "a", "t", "u", "r", "e">>
       [] s = "Documentation" -> <<"D", "o", "c", "u", "m", "e", "n", "t", "a", "t", "i", "o", "n">>
       [] s = "Code" -> <<"C", "o", "d", "e">>
       [] s = "similar" -> <<"s", "i", "m", "i", "l", "a", "r">>
       [] s = "to" -> <<"t", "o">>
       [] s = "function" -> <<"f", "u", "n", "c", "t", "i", "o", "n">>
       [] s = "class" -> <<"c", "l", "a", "s", "s">>
       [] s = "typescript" -> <<"t", "y", "p", "e", "s", "c", "r", "i", "p", "t">>
       [] s = "m" -> <<"m">>
       [] s = "ts" -> <<"t", "s">>
       [] s = "a" -> <<"a">>
       [] s = "b" -> <<"b">>
       [] s = "ab" -> <<"a", "b">>
       [] s = "a_b" -> <<"a", "_", "b">>
       [] s = "Class" -> <<"C", "l", "a", "s", "s">>
       [] s = "controllers" -> <<"c", "o", "n", "t", "r", "o", "l", "l", "e", "r", "s">>
       [] s = "models" -> <<"m", "o", "d", "e", "l", "s">>
       [] s = "views" -> <<"v", "i", "e", "w", "s">>
       [] s = "Controller" -> <<"C", "o", "n", "t", "r", "o", "l", "l", "e", "r">>
       [] s = "Model" -> <<"M", "o", "d", "e", "l">>
       [] s = "View" -> <<"V", "i", "e", "w">>
       [] s = "repository" -> <<"r", "e", "p", "o", "s", "i", "t", "o", "r", "y">>
       [] s = "repositories" -> <<"r", "e", "p", "o", "s", "i", "t", "o", "r", "i", "e", "s">>
       [] s = "Repository" -> <<"R", "e", "p", "o", "s", "i", "t", "o", "r", "y">>
       [] s = "Repo" -> <<"R", "e", "p", "o">>
       [] s = "services" -> <<"s", "e", "r", "v", "i", "c", "e", "s">>
       [] s = "service" -> <<"s", "e", "r", "v", "i", "c", "e">>
       [] s = "Service" -> <<"S", "e", "r", "v", "i", "c", "e">>
       [] s = "Manager" -> <<"M", "a", "n", "a", "g", "e", "r">>
       [] s = "factory" -> <<"f", "a", "c", "t", "o", "r", "y">>
       [] s = "factories" -> <<"f", "a", "c", "t", "o", "r", "i", "e", "s">>
       [] s = "Factory" -> <<"F", "a", "c", "t", "o", "r", "y">>
       [] s = "Creator" -> <<"C", "r", "e", "a", "t", "o", "r">>
       [] s = "def" -> <<"d", "e", "f">>
       [] s = "func" -> <<"f", "u", "n", "c">>
       [] s = "method" -> <<"m", "e", "t", "h", "o", "d">>
       [] s = "struct" -> <<"s", "t", "r", "u", "c", "t">>
       [] s = "interface" -> <<"i", "n", "t", "e", "r", "f", "a", "c", "e">>
       [] s = "import" -> <<"i", "m", "p", "o", "r", "t">>
       [] s = "require" -> <<"r", "e", "q", "u", "i", "r", "e">>
       [] s = "include" -> <<"i", "n", "c", "l", "u", "d", "e">>
       [] s = "from" -> <<"f", "r", "o", "m">>
       [] s = "export" -> <<"e", "x", "p", "o", "r", "t">>
       [] s = "module.exports" -> <<"m", "o", "d", "u", "l", "e", ".", "e", "x", "p", "o", "r", "t", "s">>
       [] s = "public" -> <<"p", "u", "b", "l", "i", "c">>
       [] s = "async" -> <<"a", "s", "y", "n", "c">>
       [] s = "await" -> <<"a", "w", "a", "i", "t">>
       [] s = "promise" -> <<"p", "r", "o", "m", "i", "s", "e">>
       [] s = "then" -> <<"t", "h", "e", "n">>
       [] s = "return" -> <<"r", "e", "t", "u", "r", "n">>
       [] s = "yield" -> <<"y", "i", "e", "l", "d">>
       [] s = "if" -> <<"i", "f">>
       [] s = "else" -> <<"e", "l", "s", "e">>
       [] s = "switch" -> <<"s", "w", "i", "t", "c", "h">>
       [] s = "case" -> <<"c", "a", "s", "e">>
       [] s = "for" -> <<"f", "o", "r">>
       [] s = "while" -> <<"w", "h", "i", "l", "e">>
       [] s = "foreach" -> <<"f", "o", "r", "e", "a", "c", "h">>
       [] s = "map" -> <<"m", "a", "p">>
       [] s = "try" -> <<"t", "r", "y">>
       [] s = "catch" -> <<"c", "a", "t", "c", "h">>
       [] s = "throw" -> <<"t", "h", "r", "o", "w">>
       [] s = "error" -> <<"e", "r", "r", "o", "r">>
       [] s = "const" -> <<"c", "o", "n", "s", "t">>
       [] s = "let" -> <<"l", "e", "t">>
       [] s = "var" -> <<"v", "a", "r">>
       [] s = "val" -> <<"v", "a", "l">>
       [] s = "new" -> <<"n", "e", "w">>
       [] s = "constructor" -> <<"c", "o", "n", "s", "t", "r", "u", "c", "t", "o", "r">>
       [] s = "init" -> <<"i", "n", "i", "t">>
       [] s = "get" -> <<"g", "e", "t">>
       [] s = "set" -> <<"s", "e", "t">>
       [] s = "getter" -> <<"g", "e", "t", "t", "e", "r">>
       [] s = "setter" -> <<"s", "e", "t", "t", "e", "r">>
       [] s = "api" -> <<"a", "p", "i">>
       [] s = "endpoint" -> <<"e", "n", "d", "p", "o", "i", "n", "t">>
       [] s = "route" -> <<"r", "o", "u", "t", "e">>
       [] s = "rest" -> <<"r", "e", "s", "t">>
       [] s = "test" -> <<"t", "e", "s", "t">>
       [] s = "spec" -> <<"s", "p", "e", "c">>
       [] s = "describe" -> <<"d", "e", "s", "c", "r", "i", "b", "e">>
       [] s = "it" -> <<"i", "t">>
       [] s = "expect" -> <<"e", "x", "p", "e", "c", "t">>
       [] s = "database" -> <<"d", "a", "t", "a", "b", "a", "s", "e">>
       [] s = "query" -> <<"q", "u", "e", "r", "y">>
       [] s = "sql" -> <<"s", "q", "l">>
       [] s = "select" -> <<"s", "e", "l", "e", "c", "t">>

charTable == Tabulate([s \in Lexicon |-> spell(s)])

Chars(s) == charTable[s]

features ==
  << [keywords |-> <<"function", "def", "func", "method">>, index |-> 300],
     [keywords |-> <<"class", "struct", "interface">>, index |-> 301],
     [keywords |-> <<"import", "require", "include", "from">>, index |-> 302],
     [keywords |-> <<"export", "module.exports", "public">>, index |-> 303],
     [keywords |-> <<"async", "await", "promise", "then">>, index |-> 304],
     [keywords |-> <<"return", "yield">>, index |-> 305],
     [keywords |-> <<"if", "else", "switch", "case">>, index |-> 306],
     [keywords |-> <<"for", "while", "foreach", "map">>, index |-> 307],
     [keywords |-> <<"try", "catch", "throw", "error">>, index |-> 308],
     [keywords |-> <<"const", "let", "var", "val">>, index |-> 309],
     [keywords |-> <<"new", "constructor", "init">>, index |-> 310],
     [keywords |-> <<"get", "set", "getter", "setter">>, index |-> 311],
     [keywords |-> <<"api", "endpoint", "route", "rest">>, index |-> 312],
     [keywords |-> <<"test", "spec", "describe", "it", "expect">>, index |-> 313],
     [keywords |-> <<"database", "query", "sql", "select">>, index |-> 314] >>

Punct == {":", ".", "{", "}", "(", ")", "[", "]", "=>", "::", "->", "/"}

IsWord(lexeme) == lexeme \notin Punct

LowerChar(c) ==
  CASE c = "T" -> "t" [] c = "N" -> "n" [] c = "L" -> "l" [] c = "F" -> "f"
    [] c = "S" -> "s" [] c = "D" -> "d" [] c = "C" -> "c" [] c = "M" -> "m"
    [] c = "V" -> "v" [] c = "R" -> "r" [] OTHER -> c

toLowerCase(cs) == Tabulate([i \in 1..Len(cs) |-> LowerChar(cs[i])])

\* String.prototype.includes on two character sequences.
includes(hay, needle) ==
  \E off \in 0..(Len(hay) - Len(needle)) :
     \A j \in 1..Len(needle) : hay[off + j] = needle[j]

\* ------------------------------------------------- the model's vocabulary
\* Lexemes the inputs of the model are made of.
InputWords == {"Type", "Name", "Language", "File", "Code", "Documentation",
               "similar", "to", "function", "class", "typescript",
               "m", "ts", "a", "b", "ab", "a_b",
               "controllers", "models", "views", "Controller", "Model", "View",
               "repository", "repositories", "Repository", "Repo",
               "services", "service", "Service", "Manager",
               "factory", "factories", "Factory", "Creator"}

wordTokens == {toLowerCase(Chars(w)) : w \in InputWords}

bigram(w1, w2) == w1 \o <<"_">> \o w2

allTokens == wordTokens \cup {bigram(w1, w2) : w1 \in wordTokens, w2 \in wordTokens}

keywordTokens == UNION {{Chars(features[i].keywords[j]) : j \in 1..Len(features[i].keywords)} :
                        i \in 1..Len(features)}

knownNeedles == allTokens \cup keywordTokens

\* For every token, the lexemes whose lower-cased characters contain it.
lexemesContaining ==
  [t \in knownNeedles |-> {w \in InputWords : includes(toLowerCase(Chars(w)), t)}]

\* doc.toLowerCase().includes(needle): the texts of the model hold no needle
\* that spans two lexemes, so a needle occurs in a text exactly when it occurs
\* inside one of its lexemes.
docIncludes(doc, token) ==
  IF token \in knownNeedles
    THEN \E i \in 1..Len(doc) : doc[i] \in lexemesContaining[token]
    ELSE \E i \in 1..Len(doc) : IsWord(doc[i]) /\ includes(toLowerCase(Chars(doc[i])), token)

\* ------------------------------------------------------------ numerics
\* Math.log in thousandths, ln(n/d) = ln n - ln d; the table is additive over
\* products so that equal ratios get equal logarithms.
lnTable == <<0, 693, 1099, 1386, 1609, 1792, 1946, 2079, 2198, 2302, 2398, 2485,
            2565, 2639, 2708, 2772, 2833, 2891, 2944, 2995, 3045, 3091, 3135, 3178,
            3218, 3258, 3297, 3332, 3367, 3401, 3434, 3465>>

MathLog(n, d) == lnTable[n] - lnTable[d]

\* Math.sqrt: the integer square root.
MathSqrt(x) ==
  LET RECURSIVE Go(_, _)
      Go(lo, hi) == IF lo >= hi THEN lo
                    ELSE LET mid == (lo + hi + 1) \div 2
                         IN IF mid * mid <= x THEN Go(mid, hi) ELSE Go(lo, mid - 1)
  IN Go(0, IF x < 46340 THEN x ELSE 46340)

Min(a, b) == IF a < b THEN a ELSE b

\* ------------------------------------------------------- sparse vectors
ZeroVector == [d \in {} |-> 0]

VGet(vec, d) == IF d \in DOMAIN vec THEN vec[d] ELSE 0

VSumSquares(vec) ==
  LET RECURSIVE Go(_)
      Go(S) == IF S = {} THEN 0
               ELSE LET d == CHOOSE x \in S : TRUE IN vec[d] * vec[d] + Go(S \ {d})
  IN Go(DOMAIN vec)

\* ------------------------------------------------- EmbeddingGenerator
\* A value that is not a string (undefined), where the program expects a
\* text: no text of the model holds this lexeme.
undefinedText == <<"undefined!">>

isString(text) == text # undefinedText

\* tokenize: lower-case, non-word characters to spaces, split on white
\* space, then the words followed by the bigrams of neighbouring words.
tokenize(text) ==
  LET lex   == SelectSeq(text, IsWord)
      words == [i \in 1..Len(lex) |-> toLowerCase(Chars(lex[i]))] \o <<>>
  IN words \o [i \in 1..(Len(words) - 1) |-> bigram(words[i], words[i + 1])]

\* computeTF: the Map token -> count, an entry standing at the position of
\* the token's first occurrence, so the Map's iteration order is the order of
\* the positions; the count is divided by totalTokens where the score is used.
computeTF(tokens) ==
  LET firsts == {i \in 1..Len(tokens) : \A j \in 1..(i - 1) : tokens[j] # tokens[i]}
  IN Tabulate([i \in firsts |->
        [token |-> tokens[i],
         count |-> Cardinality({j \in 1..Len(tokens) : tokens[j] = tokens[i]})]])

\* A vocabulary that is numbered anew from the tokens of every text.
updateVocabularyAnew(vocab, tokens) ==
  LET firsts == {i \in 1..Len(tokens) : \A j \in 1..(i - 1) : tokens[j] # tokens[i]}
  IN [t \in {tokens[i] : i \in firsts} |->
        Cardinality({j \in firsts : j < (CHOOSE i \in firsts : tokens[i] = t)})]

\* updateVocabulary: an unseen token gets index vocabulary.size, so the new
\* tokens are numbered from the old size on in order of first occurrence.
updateVocabulary(vocab, tokens) ==
  LET newAt == {i \in 1..Len(tokens) :
                  /\ tokens[i] \notin DOMAIN vocab
                  /\ \A j \in 1..(i - 1) : tokens[j] # tokens[i]}
  IN vocab @@ [t \in {tokens[i] : i \in newAt} |->
                 Cardinality(DOMAIN vocab)
                   + Cardinality({j \in newAt : j < (CHOOSE i \in newAt : tokens[i] = t)})]

documentCount(docs, token) == Cardinality({i \in 1..Len(docs) : docIncludes(docs[i], token)})

\* computeIDF: cleared, then ln(N / documentCount) for every vocabulary token
\* that occurs in at least one document.
computeIDF(vocab, docs) ==
  LET N  == IF Len(docs) = 0 THEN 1 ELSE Len(docs)
      df == Tabulate([t \in DOMAIN vocab |-> documentCount(docs, t)])
  IN Tabulate([t \in {x \in DOMAIN vocab : df[x] > 0} |-> MathLog(N, df[t])])

Alphabet == <<"a", "b", "c", "d", "e", "f", "g", "h", "i", "j", "k", "l", "m",
              "n", "o", "p", "q", "r", "s", "t", "u", "v", "w", "x", "y", "z">>

\* String.prototype.charCodeAt for the characters a token can hold.
charCodeAt(c) ==
  IF c = "_" THEN 95 ELSE 96 + (CHOOSE i \in 1..Len(Alphabet) : Alphabet[i] = c)

\* simpleHash: hash = ((hash << 5) - hash) + char, cut to 32 bits after every
\* character.  The 32-bit value is kept as two 16-bit halves.
RECURSIVE simpleHash32(_, _)
simpleHash32(str, hash) ==
  IF str = <<>> THEN hash
  ELSE LET lo == hash.lo * 31 + charCodeAt(Head(str))
           hi == hash.hi * 31 + lo \div 65536
       IN simpleHash32(Tail(str), [hi |-> hi % 65536, lo |-> lo % 65536])

simpleHash(str) == simpleHash32(str, [hi |-> 0, lo |-> 0])

\* Math.abs(simpleHash(token) % dimension): the remainder has the sign of the
\* hash, which is negative when bit 31 is set.
hashedSlot(str) ==
  LET h   == simpleHash(str)
      w16 == 65536 % dimension
      u   == ((h.hi % dimension) * w16 + h.lo) % dimension
      w32 == (w16 * w16) % dimension
  IN IF h.hi < 32768 THEN u ELSE (w32 + dimension - u) % dimension

\* One turn of the TF-IDF loop of textToVector: an index inside the dimension
\* is assigned, an index beyond it is folded by the hash and added.
tfidfWeight(entry, totalTokens, idf) ==
  LET idfScore == IF entry.token \in DOMAIN idf THEN idf[entry.token] ELSE 0
  IN (entry.count * idfScore) \div totalTokens

\* The slot an entry of tf writes: its vocabulary index when that is below
\* the dimension, else the hashed slot.
tfidfSlot(entry, vocab) ==
  IF vocab[entry.token] < dimension THEN vocab[entry.token] ELSE hashedSlot(entry.token)

RECURSIVE SumOver(_, _)
SumOver(S, weight) ==
  IF S = {} THEN 0
  ELSE LET i == CHOOSE x \in S : TRUE IN weight[i] + SumOver(S \ {i}, weight)

\* The loop over the entries of tf, in Map order: an in-range entry assigns
\* its slot (vector[index] = weight), a hashed entry adds to its slot
\* (vector[hashIndex] += weight).  A slot so ends with the weight of the last
\* entry that assigned it, or its old value, plus what was added afterwards.
tfidfLoop(tf, totalTokens, vocab, idf, vector) ==
  LET known    == {i \in DOMAIN tf : tf[i].token \in DOMAIN vocab}
      slot     == Tabulate([i \in known |-> tfidfSlot(tf[i], vocab)])
      weight   == Tabulate([i \in known |-> tfidfWeight(tf[i], totalTokens, idf)])
      assigns  == {i \in known : vocab[tf[i].token] < dimension}
      lastSet(d) == IF \E i \in assigns : slot[i] = d
                      THEN CHOOSE i \in assigns : slot[i] = d /\ \A j \in assigns : slot[j] = d => j <= i
                      ELSE 0
      value(d) == (IF lastSet(d) = 0 THEN VGet(vector, d) ELSE weight[lastSet(d)])
                  + SumOver({i \in known \ assigns : slot[i] = d /\ i > lastSet(d)}, weight)
      slots    == (DOMAIN vector) \cup {slot[i] : i \in known}
  IN Tabulate([d \in {x \in slots : value(x) # 0} |-> value(d)])

keywordHits(text, keywords) ==
  Cardinality({j \in 1..Len(keywords) : docIncludes(text, Chars(keywords[j]))})

\* The keyword loop of addSemanticFeatures: every group writes its own slot,
\* so the loop amounts to overwriting the slots of the groups that are hit.
keywordLoop(fs, text, vector) ==
  LET hit   == {i \in 1..Len(fs) : keywordHits(text, fs[i].keywords) > 0 /\ fs[i].index < dimension}
      slots == {fs[i].index : i \in hit}
  IN Tabulate([d \in (DOMAIN vector) \cup slots |->
        IF d \in slots
          THEN LET i == CHOOSE j \in hit : fs[j].index = d
               IN (keywordHits(text, fs[i].keywords) * Unit) \div Len(fs[i].keywords)
          ELSE vector[d]])

occurrences(text, mark) == Cardinality({i \in 1..Len(text) : text[i] = mark})

\* text.match of a greedy /<open>[\s\S]*<close>/g pattern: one match from the
\* first opening mark to the last closing mark, or none.
spanMatches(text, open, close) ==
  IF \E i, j \in 1..Len(text) : i < j /\ text[i] = open /\ text[j] = close THEN 1 ELSE 0

structureFeatures(text) ==
  << [matches |-> spanMatches(text, "{", "}"), index |-> 320],
     [matches |-> spanMatches(text, "(", ")"), index |-> 321],
     [matches |-> spanMatches(text, "[", "]"), index |-> 322],
     [matches |-> occurrences(text, "=>"), index |-> 323],
     [matches |-> occurrences(text, "."), index |-> 324],
     [matches |-> occurrences(text, "::"), index |-> 325],
     [matches |-> occurrences(text, "->"), index |-> 326] >>

\* The structure loop of addSemanticFeatures, likewise one slot per pattern.
structureLoop(fs, vector) ==
  LET hit   == {i \in 1..Len(fs) : fs[i].matches > 0 /\ fs[i].index < dimension}
      slots == {fs[i].index : i \in hit}
  IN Tabulate([d \in (DOMAIN vector) \cup slots |->
        IF d \in slots
          THEN LET i == CHOOSE j \in hit : fs[j].index = d
               IN Min((fs[i].matches * Unit) \div 10, Unit)
          ELSE vector[d]])

addSemanticFeatures(text, vector) ==
  structureLoop(structureFeatures(text), keywordLoop(features, text, vector))

\* textToVector without the division by the norm.
unnormalized(vector) == vector

\* The final step of textToVector: divide by the L2 norm unless it is 0.
normalize(vector) ==
  LET magnitude == MathSqrt(VSumSquares(vector))
  IN IF magnitude > 0
       THEN LET scaled == Tabulate([d \in DOMAIN vector |-> (vector[d] * Unit) \div magnitude])
            IN Tabulate([d \in {x \in DOMAIN vector : scaled[x] # 0} |-> scaled[d]])
       ELSE vector

textToVector(text, vocab, idf) ==
  LET tokens == tokenize(text)
      tf     == computeTF(tokens)
  IN normalize(addSemanticFeatures(text,
       tfidfLoop(tf, Len(tokens), vocab, idf, ZeroVector)))

\* The generator's three fields as one value.
Generator(vocab, idf, docs) == [vocabulary |-> vocab, idfScores |-> idf, documents |-> docs]

NewGenerator == Generator([t \in {} |-> 0], [t \in {} |-> 0], <<>>)

\* What generate leaves behind when it throws: the generator as it stands,
\* and no vector.
threwWith(generator) == [gen |-> generator, vector |-> ZeroVector, threw |-> TRUE]

\* The inner loop of computeIDF calls doc.toLowerCase() on every document
\* for the first vocabulary token: a TypeError when one is not a string.
computeIDFThrows(vocab, docs) ==
  DOMAIN vocab # {} /\ \E i \in 1..Len(docs) : ~isString(docs[i])

\* generate without the push onto documents.
generateUncounted(g, text) ==
  LET vocab == updateVocabulary(g.vocabulary, tokenize(text))
      idf   == computeIDF(vocab, g.documents)
  IN [gen |-> Generator(vocab, idf, g.documents), vector |-> textToVector(text, vocab, idf),
      threw |-> FALSE]

\* generate without its computeIDF call: the vector is computed from the table
\* of the call before.
generateStaleIDF(g, text) ==
  LET docs  == Append(g.documents, text)
      vocab == updateVocabulary(g.vocabulary, tokenize(text))
  IN [gen |-> Generator(vocab, g.idfScores, docs),
      vector |-> textToVector(text, vocab, g.idfScores), threw |-> FALSE]

\* generate(text): the text joins the documents, its tokens the vocabulary,
\* the IDF table is recomputed, and the text is vectorized.  text.toLowerCase()
\* in tokenize throws on a text that is not a string, after the push;
\* computeIDF throws on a document that is not a string, after the clear.
generate(g, text) ==
  LET docs == Append(g.documents, text)
  IN IF ~isString(text)
       THEN threwWith(Generator(g.vocabulary, g.idfScores, docs))
       ELSE LET vocab == updateVocabulary(g.vocabulary, tokenize(text))
            IN IF computeIDFThrows(vocab, docs)
                 THEN threwWith(Generator(vocab, NewGenerator.idfScores, docs))
                 ELSE LET idf == computeIDF(vocab, docs)
                      IN [gen |-> Generator(vocab, idf, docs),
                          vector |-> textToVector(text, vocab, idf), threw |-> FALSE]

RECURSIVE updateVocabularyAll(_, _)
updateVocabularyAll(vocab, texts) ==
  IF texts = <<>> THEN vocab
  ELSE updateVocabularyAll(updateVocabulary(vocab, tokenize(Head(texts))), Tail(texts))

\* A generateBatch inside a try whose catch hands back substitute vectors.
generateBatchFallback(g, texts) ==
  LET docs  == g.documents \o texts
      vocab == updateVocabularyAll(g.vocabulary, texts)
  IN IF computeIDFThrows(vocab, docs)
       THEN [gen |-> Generator(vocab, NewGenerator.idfScores, docs),
             vectors |-> Tabulate([i \in 1..Len(texts) |-> ZeroVector]), threw |-> FALSE]
       ELSE LET idf == computeIDF(vocab, docs)
            IN [gen |-> Generator(vocab, idf, docs),
                vectors |-> Tabulate([i \in 1..Len(texts) |-> textToVector(texts[i], vocab, idf)]),
                threw |-> FALSE]

\* generateBatch(texts): all texts join the documents and the vocabulary,
\* then one IDF recompute, then every text is vectorized.  The texts are the
\* strings createChunkText builds; computeIDF throws on a document that is
\* not a string.
generateBatch(g, texts) ==
  LET docs  == g.documents \o texts
      vocab == updateVocabularyAll(g.vocabulary, texts)
  IN IF computeIDFThrows(vocab, docs)
       THEN [gen |-> Generator(vocab, NewGenerator.idfScores, docs),
             vectors |-> <<>>, threw |-> TRUE]
       ELSE LET idf == computeIDF(vocab, docs)
            IN [gen |-> Generator(vocab, idf, docs),
                vectors |-> Tabulate([i \in 1..Len(texts) |-> textToVector(texts[i], vocab, idf)]),
                threw |-> FALSE]


\* ------------------------------------------------------------ CodeChunk
\* An optional or non-string field carries its JavaScript type with it.
Undefined(zero) == [t |-> "undefined", v |-> zero]
String(s) == [t |-> "string", v |-> s]
Date(ms) == [t |-> "Date", v |-> ms]

MetaKeys == {"signature", "docstring", "lastModified"}

metaZero(k) == IF k = "lastModified" THEN 0 ELSE <<>>

\* createChunk of the indexer's parsers: lastModified is a Date, the other
\* metadata fields are unset unless the parser fills them in.
createChunk(id, file, content, type, name, startLine, endLine, parentId, docstring, now) ==
  [id |-> id, filepath |-> file, content |-> content, type |-> type, name |-> name,
   startLine |-> startLine, endLine |-> endLine, language |-> "typescript",
   parentId |-> parentId,
   metadata |-> [signature |-> Undefined(<<>>), docstring |-> docstring,
                 lastModified |-> Date(now)]]

truthy(field) == field.t # "undefined" /\ field.v # <<>>

\* path.basename: the last segment of the path.
basename(filepath) == filepath[Len(filepath)]

\* createChunkText: the labelled parts joined by line breaks.
createChunkText(chunk) ==
  <<"Type", ":", chunk.type, "Name", ":", chunk.name,
    "Language", ":", chunk.language, "File", ":">> \o basename(chunk.filepath)
  \o (IF truthy(chunk.metadata.signature)
        THEN <<"Signature", ":">> \o chunk.metadata.signature.v ELSE <<>>)
  \o (IF truthy(chunk.metadata.docstring)
        THEN <<"Documentation", ":">> \o chunk.metadata.docstring.v ELSE <<>>)
  \o <<"Code", ":">> \o chunk.content

\* ----------------------------------------------------------------- JSON
\* JSON.stringify of one value: a Date becomes its ISO string.
toJSON(field) == IF field.t = "Date" THEN String(field.v) ELSE field

\* JSON.stringify of an object of optional fields: undefined ones are left out.
stringifyOptional(obj) ==
  [k \in {x \in DOMAIN obj : obj[x].t # "undefined"} |-> toJSON(obj[k])]

stringifyChunk(chunk) ==
  [k \in {x \in DOMAIN chunk : x = "parentId" => chunk[x].t # "undefined"} |->
     IF k = "metadata" THEN stringifyOptional(chunk.metadata)
     ELSE IF k = "parentId" THEN toJSON(chunk[k])
     ELSE chunk[k]]

\* JSON.parse, and what reading a property of the parsed object gives: a key
\* that is not in the document reads as undefined, a string stays a string.
parseOptional(json, keys) ==
  [k \in keys |-> IF k \in DOMAIN json THEN json[k] ELSE Undefined(metaZero(k))]

parseChunk(json) ==
  [k \in (DOMAIN json) \cup {"parentId"} |->
     IF k = "metadata" THEN parseOptional(json.metadata, MetaKeys)
     ELSE IF k \in DOMAIN json THEN json[k]
     ELSE Undefined("")]

\* --------------------------------------------------------- persisted file
\* The snapshot file: absent, text that is not JSON, a JSON value that is
\* not an array, or a JSON array of items; an item is an object or null.
NoFile == [kind |-> "absent", items |-> <<>>]
Garbage == [kind |-> "garbage", items |-> <<>>]
NotArray == [kind |-> "object", items |-> <<>>]
JsonArray(items) == [kind |-> "array", items |-> items]
NullItem == [isNull |-> TRUE]

\* ------------------------------------------------------------------ Map
MapHas(map, id) == \E i \in 1..Len(map) : map[i].id = id

MapGet(map, id) == map[CHOOSE i \in 1..Len(map) : map[i].id = id]

\* An array push in place of Map.set: a key that is there is not looked for.
MapPush(map, entry) == Append(map, entry)

\* Map.set: an existing key keeps its place, a new key goes last.
MapSet(map, entry) ==
  IF MapHas(map, entry.id)
    THEN [i \in 1..Len(map) |-> IF map[i].id = entry.id THEN entry ELSE map[i]]
    ELSE Append(map, entry)

MapDelete(map, id) == SelectSeq(map, LAMBDA e : e.id # id)

MapKeys(map) == {map[i].id : i \in 1..Len(map)}

Stored(chunk, embedding) == [id |-> chunk.id, chunk |-> chunk, embedding |-> embedding]

\* ------------------------------------------------------ MemoryVectorStore
\* saveToDisk's document: one {id, chunk, embedding} item per entry.
snapshot(map) ==
  JsonArray([i \in 1..Len(map) |->
     [isNull |-> FALSE, id |-> map[i].id, chunk |-> stringifyChunk(map[i].chunk),
      embedding |-> map[i].embedding]])

\* loadFromDisk: the entries set before the first item that throws are kept;
\* every exception is caught.
RECURSIVE loadItems(_, _)
loadItems(items, map) ==
  IF items = <<>> \/ Head(items).isNull THEN map
  ELSE loadItems(Tail(items),
         MapSet(map, [id |-> Head(items).id, chunk |-> parseChunk(Head(items).chunk),
                      embedding |-> Head(items).embedding]))

loadFromDisk(file) == IF file.kind = "array" THEN loadItems(file.items, <<>>) ELSE <<>>

\* A set loop that stops after the first chunk of the batch.
setFirst(map, batch, embeddings) ==
  IF batch = <<>> THEN map ELSE MapSet(map, Stored(Head(batch), Head(embeddings)))

\* The set loop of addChunks.
RECURSIVE setAll(_, _, _)
setAll(map, batch, embeddings) ==
  IF batch = <<>> THEN map
  ELSE setAll(MapSet(map, Stored(Head(batch), Head(embeddings))), Tail(batch), Tail(embeddings))

\* A delete loop that stops after the first id.
deleteFirst(map, ids) == IF ids = <<>> THEN map ELSE MapDelete(map, Head(ids))

\* The delete loop of deleteChunks.
RECURSIVE deleteAll(_, _)
deleteAll(map, ids) ==
  IF ids = <<>> THEN map ELSE deleteAll(MapDelete(map, Head(ids)), Tail(ids))

cosineSimilarity(a, b) ==
  LET S == (DOMAIN a) \cap (DOMAIN b)
      RECURSIVE Dot(_)
      Dot(T) == IF T = {} THEN 0
                ELSE LET d == CHOOSE x \in T : TRUE IN a[d] * b[d] + Dot(T \ {d})
      normA == MathSqrt(VSumSquares(a))
      normB == MathSqrt(VSumSquares(b))
  IN IF normA = 0 \/ normB = 0 THEN 0 ELSE (Dot(S) * Unit) \div (normA * normB)

\* A sort that is not stable: a result goes before the results of equal score.
RECURSIVE insertBeforeTies(_, _)
insertBeforeTies(sorted, r) ==
  IF sorted = <<>> THEN <<r>>
  ELSE IF Head(sorted).score < r.score
         THEN <<Head(sorted)>> \o insertBeforeTies(Tail(sorted), r)
         ELSE <<r>> \o sorted

\* Array.prototype.sort with (a, b) => a.score - b.score: stable, ascending.
RECURSIVE insertByScore(_, _)
insertByScore(sorted, r) ==
  IF sorted = <<>> THEN <<r>>
  ELSE IF Head(sorted).score <= r.score
         THEN <<Head(sorted)>> \o insertByScore(Tail(sorted), r)
         ELSE <<r>> \o sorted

RECURSIVE sortByScore(_)
sortByScore(rs) ==
  IF rs = <<>> THEN <<>>
  ELSE insertByScore(sortByScore(SubSeq(rs, 1, Len(rs) - 1)), rs[Len(rs)])

\* A ranking by similarity instead of distance: the farthest chunk first.
rankBySimilarity(map, queryEmbedding, k) ==
  Slice(sortByScore(Tabulate([i \in 1..Len(map) |->
          [chunk |-> map[i].chunk,
           score |-> cosineSimilarity(queryEmbedding, map[i].embedding)]])), k)

\* The scan, sort and slice of search, given the query's embedding.
rank(map, queryEmbedding, k) ==
  Slice(sortByScore(Tabulate([i \in 1..Len(map) |->
          [chunk |-> map[i].chunk,
           score |-> Unit - cosineSimilarity(queryEmbedding, map[i].embedding)]])), k)

\* search, from its second statement on: e is what generate(query) gave, the
\* generator after the call and the query's vector.
search(map, e, k) == rank(map, e.vector, k)

searchPrefix == <<"Code", "similar", "to", ":">>

\* The query searchByCode hands to search.
codeQuery(codeSnippet) == searchPrefix \o codeSnippet

getChunkById(map, chunkId) ==
  IF MapHas(map, chunkId) THEN <<MapGet(map, chunkId).chunk>> ELSE <<>>

\* getRelatedChunks without its filter.
keepSelf(results, chunkId, k) == Slice(results, k)

\* The filter and slice of getRelatedChunks.
dropSelf(results, chunkId, k) ==
  Slice(SelectSeq(results, LAMBDA r : r.chunk.id # chunkId), k)

\* An unknown id returns [] before search is called.
\* e is what generate(chunkText) gave inside search; it is not looked at for
\* an unknown id.
getRelatedChunks(map, e, chunkId, k) ==
  IF getChunkById(map, chunkId) = <<>> THEN <<>>
  ELSE dropSelf(search(map, e, k + 1), chunkId, k)

histogram(map, field) ==
  [v \in {map[i].chunk[field] : i \in 1..Len(map)} |->
     Cardinality({i \in 1..Len(map) : map[i].chunk[field] = v})]

getStats(map) ==
  [totalChunks |-> Len(map), chunksByType |-> histogram(map, "type"),
   chunksByLanguage |-> histogram(map, "language")]
\* --------------------------------------------------------- ContextManager
\* The memory ledger.  Of a MemoryEntry the model keeps the fields the ledger
\* operations read or write: id, timestamp, query and feedback.
MemoryEntry(id, now, query, response, relevantChunks, feedback) ==
  [id |-> id, timestamp |-> Date(now), query |-> query, response |-> response,
   relevantChunks |-> relevantChunks, feedback |-> feedback]

\* JSON.stringify of an entry: the timestamp becomes its ISO string, an unset
\* feedback is left out.
stringifyEntry(entry) ==
  [k \in {x \in DOMAIN entry : x = "feedback" => entry[x].t # "undefined"} |->
     IF k \in {"timestamp", "feedback"} THEN toJSON(entry[k]) ELSE entry[k]]

\* JSON.parse of an entry: the timestamp stays the string it is in the file.
parseEntry(json) ==
  [k \in (DOMAIN json) \cup {"feedback"} |->
     IF k \in DOMAIN json THEN json[k] ELSE Undefined("")]

\* loadMemoryEntries: forEach sets entry after entry until one throws; the
\* exception is caught and what was set stays.
RECURSIVE setEntries(_, _)
setEntries(items, map) ==
  IF items = <<>> \/ Head(items).isNull THEN map
  ELSE setEntries(Tail(items), MapSet(map, parseEntry(Head(items).entry)))

loadMemoryEntries(file) == IF file.kind = "array" THEN setEntries(file.items, <<>>) ELSE <<>>

\* timestamp.getTime() exists on a Date, not on a string.
hasGetTime(entry) == entry.timestamp.t = "Date"

\* Array.prototype.sort with (a, b) => b.timestamp.getTime() -
\* a.timestamp.getTime(): stable, newest first.
RECURSIVE insertByTime(_, _)
insertByTime(sorted, entry) ==
  IF sorted = <<>> THEN <<entry>>
  ELSE IF Head(sorted).timestamp.v >= entry.timestamp.v
         THEN <<Head(sorted)>> \o insertByTime(Tail(sorted), entry)
         ELSE <<entry>> \o sorted

RECURSIVE sortByTime(_)
sortByTime(entries) ==
  IF entries = <<>> THEN <<>>
  ELSE insertByTime(sortByTime(SubSeq(entries, 1, Len(entries) - 1)), entries[Len(entries)])

\* The comparator runs once there are two entries to compare, and throws a
\* TypeError on an entry whose timestamp is a string.
sortThrows(map) == Len(map) >= 2 /\ \E i \in 1..Len(map) : ~hasGetTime(map[i])

\* saveMemoryEntries' document: sorted newest first, cut to maxMemoryEntries.
ledgerDocument(map) ==
  LET entries == IF Len(map) >= 2 THEN sortByTime(map) ELSE map
      kept    == Slice(entries, maxMemoryEntries)
  IN JsonArray([i \in 1..Len(kept) |->
       [isNull |-> FALSE, entry |-> stringifyEntry(kept[i])]])

\* Map.get(entryId).feedback = feedback
setFeedback(map, entryId, feedback) ==
  [i \in 1..Len(map) |->
     IF map[i].id = entryId THEN [map[i] EXCEPT !.feedback = String(feedback)] ELSE map[i]]


\* ------------------------------------------------------------ CodeIndexer
\* CodeIndexer.progress as the constructor sets it.
newProgress ==
  [totalFiles |-> 0, processedFiles |-> 0, currentFile |-> <<>>, errors |-> <<>>,
   status |-> "idle"]

\* processBatch when every indexFile comes back: for every file the
\* snapshot with currentFile set and the one after processedFiles++.
RECURSIVE processBatch(_, _)
processBatch(report, batch) ==
  IF batch = <<>> THEN <<>>
  ELSE LET current == [report EXCEPT !.currentFile = Head(batch)]
           counted == [current EXCEPT !.processedFiles = @ + 1]
       IN <<current, counted>> \o processBatch(counted, Tail(batch))

Last(s) == s[Len(s)]

\* The snapshots one indexWorkspace run over the files hands to the
\* progress callback, in order: status indexing, totalFiles set, those of
\* processBatch, status completed.
updateProgress(report, indexed) ==
  LET started == [report EXCEPT !.status = "indexing"]
      counted == [started EXCEPT !.totalFiles = Len(indexed)]
      batch   == <<started, counted>> \o processBatch(counted, indexed)
  IN Append(batch, [Last(batch) EXCEPT !.status = "completed"])

\* --------------------------------------------------------- StatusBarManager
\* The item's text is kept as its icon and what follows the icon.
displayText == [icon |-> "$(database)", label |-> <<"CodeMemory">>]

\* new StatusBarManager(); timers holds the intervals setInterval has made
\* for the manager and clearInterval has not cleared, created how many it
\* has made.
newStatusBar ==
  [isLoading |-> FALSE, loadingInterval |-> 0, text |-> displayText,
   tooltip |-> <<"CodeMemory Status">>, timers |-> {}, created |-> 0, disposed |-> FALSE]

frames == <<"f0", "f1", "f2", "f3", "f4", "f5", "f6", "f7", "f8", "f9">>

clearInterval(timers, id) == {t \in timers : t.id # id}

updateDisplay(bar) == IF ~bar.isLoading THEN [bar EXCEPT !.text = displayText] ELSE bar

\* setLoading(true) that leaves the interval of the call before running.
setLoadingStacked(bar, loading, message) ==
  IF loading
    THEN [bar EXCEPT !.isLoading = TRUE,
                     !.timers = @ \cup {[id |-> bar.created + 1, frame |-> 0,
                                         message |-> message]},
                     !.loadingInterval = bar.created + 1,
                     !.created = @ + 1]
    ELSE updateDisplay([bar EXCEPT !.isLoading = FALSE,
                                   !.timers = clearInterval(@, bar.loadingInterval),
                                   !.loadingInterval = 0])

\* setLoading(loading, message): loadingInterval is 0 where the field is
\* undefined; message is "" where it is left out.
setLoading(bar, loading, message) ==
  IF loading
    THEN [bar EXCEPT !.isLoading = TRUE,
                     !.timers = clearInterval(@, bar.loadingInterval)
                                  \cup {[id |-> bar.created + 1, frame |-> 0,
                                         message |-> message]},
                     !.loadingInterval = bar.created + 1,
                     !.created = @ + 1]
    ELSE updateDisplay([bar EXCEPT !.isLoading = FALSE,
                                   !.timers = clearInterval(@, bar.loadingInterval),
                                   !.loadingInterval = 0])

\* The callback of the interval: it writes the frame and steps to the next.
spin(bar, timer) ==
  [bar EXCEPT !.text = [icon |-> frames[timer.frame + 1],
                        label |-> <<"CodeMemory:",
                                    IF timer.message = "" THEN "Processing..."
                                    ELSE timer.message>>],
              !.timers = (@ \ {timer})
                           \cup {[timer EXCEPT !.frame = (@ + 1) % Len(frames)]}]

\* Math.round((processedFiles / totalFiles) * 100)
percentage(report) ==
  IF report.totalFiles = 0
    THEN IF report.processedFiles = 0 THEN "NaN" ELSE "Infinity"
    ELSE (200 * report.processedFiles + report.totalFiles) \div (2 * report.totalFiles)

updateIndexingStatus(bar, report) ==
  CASE report.status = "indexing" ->
         [bar EXCEPT !.text = [icon |-> "$(sync~spin)",
                               label |-> <<"CodeMemory: Indexing", percentage(report)>>],
                     !.tooltip = <<"Indexing", report.currentFile>>]
    [] report.status = "completed" ->
         [bar EXCEPT !.text = [icon |-> "$(check)", label |-> <<"CodeMemory: Ready">>],
                     !.tooltip = <<"Indexed", report.processedFiles>>]
    [] report.status = "error" ->
         [bar EXCEPT !.text = [icon |-> "$(error)", label |-> <<"CodeMemory: Error">>],
                     !.tooltip = <<"Errors:", report.errors>>]
    [] OTHER -> updateDisplay(bar)

\* The progress callback initializeExtension sets, over the snapshots of a
\* run.
RECURSIVE progressCallback(_, _)
progressCallback(bar, delivered) ==
  IF delivered = <<>> THEN bar
  ELSE progressCallback(updateIndexingStatus(bar, Head(delivered)), Tail(delivered))

dispose(bar) ==
  [bar EXCEPT !.timers = clearInterval(@, bar.loadingInterval), !.disposed = TRUE]

\* ---------------------------------------------------------------- inputs
sourceFile == << <<"src">>, <<"m", ".", "ts">> >>

\* Chunks as the parsers produce them.
chunkA == createChunk("c1", sourceFile, <<"a", "b">>, "function", "ab", 0, 1,
                      Undefined(""), Undefined(<<>>), 1)

chunkA2 == createChunk("c1", sourceFile, <<"a_b">>, "class", "a", 0, 60,
                       Undefined(""), String(<<"ab">>), 2)

chunkB == createChunk("c2", sourceFile, <<"ab", "(", "b", ")">>, "function", "b", 2, 3,
                      String("c1"), Undefined(<<>>), 1)

\* The chunks handed to updateChunk.
ChunkPool == {chunkA2, chunkB}

\* The batches handed to addChunks; one holds an id twice.
BatchPool == {<<chunkA2>>, <<chunkB>>, <<chunkA, chunkA2>>, <<chunkA2, chunkB>>}

\* The ids handed to the store: one the chunks above use, one they do not.
ChunkIds == {"c1", "c9"}

\* The id lists handed to deleteChunks.
IdPool == {<<"c1">>, <<"c9">>, <<"c1", "c2">>}

QueryPool == {<<"a", "b">>}

SnippetPool == {<<"ab">>}

SeqsUpTo(S, n) == UNION {[1..m -> S] : m \in 0..n}

chunkTexts(batch) == Tabulate([i \in 1..Len(batch) |-> createChunkText(batch[i])])

\* The snapshot files a store can find at its path when it is constructed:
\* none, or the one an earlier session wrote after addChunks([chunkA, chunkB]).
SeedFiles ==
  {NoFile,
   snapshot(setAll(<<>>, <<chunkA, chunkB>>,
                   generateBatch(NewGenerator, chunkTexts(<<chunkA, chunkB>>)).vectors))}

\* -------------------------------------------------------------- actions
gen == Generator(vocabulary, idfScores, documents)

setGen(generator) ==
  /\ vocabulary' = generator.vocabulary
  /\ idfScores' = generator.idfScores
  /\ documents' = generator.documents

Call(op, arg, ret, result, wrote) ==
  [op |-> op, arg |-> arg, ret |-> ret, result |-> result, wrote |-> wrote,
   initialized |-> initialized, seq |-> call.seq + 1]

\* fs.writeFileSync inside saveToDisk's try: it writes the document, or it
\* throws and the file stays as it was; the catch logs and returns.
saveToDisk(map, wrote) ==
  /\ wrote \in {"ok", "failed"}
  /\ disk' = IF wrote = "ok" THEN snapshot(map) ELSE disk

\* A mutating call whose await of the generator rejects: the exception goes
\* to the caller before the Map or the file is touched.
rejected(generator, op, arg) ==
  /\ setGen(generator)
  /\ call' = Call(op, arg, "TypeError", <<>>, "none")
  /\ UNCHANGED <<chunks, disk>>

\* How search comes back, given what generate(query) gave.
searched(op, arg, e, k) ==
  IF e.threw THEN Call(op, arg, "TypeError", <<>>, "none")
  ELSE Call(op, arg, "ok", search(chunks, e, k), "none")

\* The behaviour is cut off after MaxCalls calls.
more == call.seq < MaxCalls

\* The store as its constructor leaves it on a path that holds file.
StoreInit(file) ==
  /\ disk = file
  /\ chunks = loadFromDisk(file)
  /\ vocabulary = NewGenerator.vocabulary
  /\ idfScores = NewGenerator.idfScores
  /\ documents = NewGenerator.documents
  /\ initialized = FALSE
  /\ microtasks = <<>>
  /\ call = [op |-> "constructor", arg |-> <<>>, ret |-> "ok", result |-> <<>>,
             wrote |-> "none", initialized |-> FALSE, seq |-> 0]

\* The context manager as its constructor leaves it in a workspace whose
\* memory.json is file.
LedgerInit(file) ==
  /\ ledgerFile = file
  /\ memoryEntries = loadMemoryEntries(file)
  /\ clock = 0
  /\ nanoids = 0
  /\ ledgerCall = [op |-> "constructor", arg |-> <<>>, ret |-> "ok", returned |-> <<>>, seq |-> 0]

\* The settings the manifest allows; apiKey is kept as whether it is set.
Configurations ==
  [llmProvider : {"openai", "anthropic", "local"}, apiKey : BOOLEAN, autoIndex : BOOLEAN]

\* The manifest's defaults: llmProvider openai, apiKey "", autoIndex true.
defaultConfiguration == [llmProvider |-> "openai", apiKey |-> FALSE, autoIndex |-> TRUE]

\* A file no parser indexes, next to sourceFile.
notesFile == << <<"notes", ".", "md">> >>

Paths == {sourceFile, notesFile}

noEvent == [event |-> "none", path |-> <<>>, chunks |-> <<>>, seq |-> 0]

\* The extension before activate() is called, in a workspace that holds the
\* files of present, with the settings of settings.
ExtensionInit(settings, folder, present) ==
  /\ configuration = settings
  /\ workspaceFolder = folder
  /\ registered = {}
  /\ activation = "none"
  /\ watching = FALSE
  /\ autoIndexing = FALSE
  /\ files = [p \in Paths |-> IF p \in present THEN 1 ELSE 0]
  /\ parses = 0
  /\ handled = noEvent
  /\ progress = newProgress
  /\ snapshots = <<>>
  /\ statusBar = newStatusBar

\* analyzeProjectContext in a workspace without package.json,
\* requirements.txt and pom.xml.
newProjectContext ==
  [language |-> <<>>, frameworks |-> <<>>, patterns |-> <<>>, conventions |-> <<>>,
   dependencies |-> <<>>]

noContext ==
  [op |-> "constructor", query |-> <<>>, maxResults |-> 0, ret |-> "ok", chunks |-> <<>>,
   relatedMemories |-> <<>>, computed |-> {}, dropped |-> {}, seq |-> 0]

noChunk == [seq |-> 0]

\* The context manager's cache and project context as its constructor
\* leaves them.
ContextInit ==
  /\ contextCache = <<>>
  /\ projectContext = newProjectContext
  /\ context = noContext
  /\ computed = noChunk
  /\ globalVectorStore = <<>>

Init ==
  /\ \E file \in SeedFiles : StoreInit(file)
  /\ LedgerInit(NoFile)
  /\ ExtensionInit(defaultConfiguration, TRUE, {})
  /\ ContextInit

\* new MemoryVectorStore(projectPath) on the same path: a new generator, and
\* the chunks of the snapshot file.
Construct ==
  /\ more
  /\ chunks' = loadFromDisk(disk)
  /\ setGen(NewGenerator)
  /\ initialized' = FALSE
  /\ call' = [Call("constructor", <<>>, "ok", <<>>, "none") EXCEPT !.initialized = FALSE]
  /\ UNCHANGED disk
  /\ UNCHANGED <<ledgerVars, microtasks, extensionVars, contextVars>>

Initialize ==
  /\ more
  /\ initialized' = TRUE
  /\ call' = Call("initialize", <<>>, "ok", <<>>, "none")
  /\ UNCHANGED <<chunks, vocabulary, idfScores, documents, disk>>
  /\ UNCHANGED <<ledgerVars, microtasks, extensionVars, contextVars>>

AddChunks ==
  \E batch \in BatchPool :
    /\ more
    /\ \E b \in {generateBatch(gen, chunkTexts(batch))} :
         IF b.threw
           THEN rejected(b.gen, "addChunks", batch)
           ELSE \E m \in {setAll(chunks, batch, b.vectors)}, w \in {"ok", "failed"} :
                  /\ setGen(b.gen)
                  /\ chunks' = m
                  /\ saveToDisk(m, w)
                  /\ call' = Call("addChunks", batch, "ok", <<>>, w)
    /\ UNCHANGED initialized
    /\ UNCHANGED <<ledgerVars, microtasks, extensionVars, contextVars>>

Search ==
  \E q \in QueryPool :
    /\ more
    /\ \E e \in {generate(gen, q)} :
         \E n \in 0..MaxK :
           /\ setGen(e.gen)
           /\ call' = searched("search", <<q, n>>, e, n)
    /\ UNCHANGED <<chunks, disk, initialized>>
    /\ UNCHANGED <<ledgerVars, microtasks, extensionVars, contextVars>>

\* search with a query that is not a string.
SearchUndefined ==
  /\ more
  /\ \E e \in {generate(gen, undefinedText)} :
       \E n \in 0..MaxK :
         /\ setGen(e.gen)
         /\ call' = searched("search", <<undefinedText, n>>, e, n)
  /\ UNCHANGED <<chunks, disk, initialized>>
  /\ UNCHANGED <<ledgerVars, microtasks, extensionVars, contextVars>>

SearchByCode ==
  \E snippet \in SnippetPool :
    /\ more
    /\ \E e \in {generate(gen, codeQuery(snippet))} :
         \E n \in 0..MaxK :
           /\ setGen(e.gen)
           /\ call' = searched("searchByCode", <<snippet, n>>, e, n)
    /\ UNCHANGED <<chunks, disk, initialized>>
    /\ UNCHANGED <<ledgerVars, microtasks, extensionVars, contextVars>>

\* An unknown id returns [] before search is called.
GetRelatedChunks ==
  \E id \in ChunkIds :
    /\ more
    /\ IF MapHas(chunks, id)
         THEN \E e \in {generate(gen, createChunkText(MapGet(chunks, id).chunk))} :
                \E n \in 0..MaxK :
                  /\ setGen(e.gen)
                  /\ call' = IF e.threw
                               THEN Call("getRelatedChunks", <<id, n>>, "TypeError", <<>>, "none")
                               ELSE Call("getRelatedChunks", <<id, n>>, "ok",
                                         getRelatedChunks(chunks, e, id, n), "none")
         ELSE \E n \in 0..MaxK :
                /\ setGen(gen)
                /\ call' = Call("getRelatedChunks", <<id, n>>, "ok",
                                getRelatedChunks(chunks, gen, id, n), "none")
    /\ UNCHANGED <<chunks, disk, initialized>>
    /\ UNCHANGED <<ledgerVars, microtasks, extensionVars, contextVars>>

GetChunkById ==
  \E id \in ChunkIds :
    /\ more
    /\ call' = Call("getChunkById", <<id>>, "ok", getChunkById(chunks, id), "none")
    /\ UNCHANGED <<chunks, vocabulary, idfScores, documents, disk, initialized>>
    /\ UNCHANGED <<ledgerVars, microtasks, extensionVars, contextVars>>

UpdateChunk ==
  \E c \in ChunkPool :
    /\ more
    /\ \E e \in {generate(gen, createChunkText(c))} :
         IF e.threw
           THEN rejected(e.gen, "updateChunk", <<c>>)
           ELSE \E m \in {MapSet(chunks, Stored(c, e.vector))}, w \in {"ok", "failed"} :
                  /\ setGen(e.gen)
                  /\ chunks' = m
                  /\ saveToDisk(m, w)
                  /\ call' = Call("updateChunk", <<c>>, "ok", <<>>, w)
    /\ UNCHANGED initialized
    /\ UNCHANGED <<ledgerVars, microtasks, extensionVars, contextVars>>

DeleteChunks ==
  \E ids \in IdPool :
    /\ more
    /\ \E m \in {deleteAll(chunks, ids)}, w \in {"ok", "failed"} :
         /\ chunks' = m
         /\ saveToDisk(m, w)
         /\ call' = Call("deleteChunks", ids, "ok", <<>>, w)
    /\ UNCHANGED <<vocabulary, idfScores, documents, initialized>>
    /\ UNCHANGED <<ledgerVars, microtasks, extensionVars, contextVars>>

GetStats ==
  /\ more
  /\ call' = Call("getStats", <<>>, "ok", getStats(chunks), "none")
  /\ UNCHANGED <<chunks, vocabulary, idfScores, documents, disk, initialized>>
  /\ UNCHANGED <<ledgerVars, microtasks, extensionVars, contextVars>>

\* clearAll: the map is emptied and the snapshot file unlinked.
ClearAll ==
  /\ more
  /\ chunks' = <<>>
  /\ disk' = NoFile
  /\ call' = Call("clearAll", <<>>, "ok", <<>>, "none")
  /\ UNCHANGED <<vocabulary, idfScores, documents, initialized>>
  /\ UNCHANGED <<ledgerVars, microtasks, extensionVars, contextVars>>

Next ==
  \/ Construct
  \/ Initialize
  \/ AddChunks
  \/ Search
  \/ SearchByCode
  \/ GetRelatedChunks
  \/ GetChunkById
  \/ UpdateChunk
  \/ DeleteChunks
  \/ GetStats
  \/ ClearAll

Spec == Init /\ [][Next]_vars

\* The store with callers that may hand search a query that is not a string.
FaultNext ==
  \/ Next
  \/ SearchUndefined

FaultSpec == Init /\ [][FaultNext]_vars

\* -------------------------------------------------------- ledger actions
\* The queries recorded in the ledger.
LedgerQueries == {<<"a", "b">>}

\* What recordMemoryEntry is handed: a query, a response, the ids of the
\* relevant chunks and a feedback or none.
RecordPool ==
  {[query |-> q, response |-> <<"b">>, relevantChunks |-> <<"c1", "c2">>,
    feedback |-> Undefined("")] : q \in LedgerQueries}
  \cup {[query |-> q, response |-> <<"a">>, relevantChunks |-> <<>>,
         feedback |-> String("helpful")] : q \in LedgerQueries}

\* The entry ids handed to updateMemoryFeedback: 1 is the first id nanoid
\* gives out, 0 is an id it never gives out.
FeedbackIds == {0, 1}

\* Number of calls made on the context manager in one behaviour.
MaxLedgerCalls == maxMemoryEntries + 2

ledgerMore == ledgerCall.seq < MaxLedgerCalls

LedgerCall(op, arg, ret) ==
  [op |-> op, arg |-> arg, ret |-> ret, returned |-> <<>>, seq |-> ledgerCall.seq + 1]

\* saveMemoryEntries: the sort throws, or the document is written and the
\* caller returns what it has to return.
saveMemoryEntries(map, op, arg, returned) ==
  IF sortThrows(map)
    THEN /\ ledgerFile' = ledgerFile
         /\ ledgerCall' = LedgerCall(op, arg, "TypeError")
    ELSE /\ ledgerFile' = ledgerDocument(map)
         /\ ledgerCall' = [LedgerCall(op, arg, "ok") EXCEPT !.returned = returned]

\* new ContextManager(workspacePath, vectorStore) in the same workspace.
ConstructLedger ==
  /\ ledgerMore
  /\ memoryEntries' = loadMemoryEntries(ledgerFile)
  /\ ledgerCall' = LedgerCall("constructor", <<>>, "ok")
  /\ UNCHANGED <<ledgerFile, clock, nanoids>>
  /\ UNCHANGED <<storeVars, extensionVars, contextVars>>

\* recordMemoryEntry(query, response, relevantChunks, feedback), tick after
\* the last call.
recordMemoryEntry(given, tick) ==
  /\ clock' = clock + tick
  /\ nanoids' = nanoids + 1
  /\ \E entry \in {MemoryEntry(nanoids + 1, clock + tick, given.query, given.response,
                                given.relevantChunks, given.feedback)} :
       \E m \in {MapSet(memoryEntries, entry)} :
         /\ memoryEntries' = m
         /\ saveMemoryEntries(m, "recordMemoryEntry", given, <<entry>>)

\* recordMemoryEntry: time may or may not have moved on since the last call.
RecordMemoryEntry ==
  \E given \in RecordPool, tick \in {0, 1} :
    /\ ledgerMore
    /\ recordMemoryEntry(given, tick)
    /\ UNCHANGED <<storeVars, extensionVars, contextVars>>

UpdateMemoryFeedback ==
  \E entryId \in FeedbackIds, feedback \in {"helpful", "not-helpful"} :
    /\ ledgerMore
    /\ IF MapHas(memoryEntries, entryId)
         THEN \E m \in {setFeedback(memoryEntries, entryId, feedback)} :
                /\ memoryEntries' = m
                /\ saveMemoryEntries(m, "updateMemoryFeedback", <<entryId, feedback>>, <<>>)
         ELSE /\ ledgerCall' = LedgerCall("updateMemoryFeedback", <<entryId, feedback>>, "ok")
              /\ UNCHANGED <<memoryEntries, ledgerFile>>
    /\ UNCHANGED <<clock, nanoids>>
    /\ UNCHANGED <<storeVars, extensionVars, contextVars>>

LedgerNext ==
  \/ ConstructLedger
  \/ RecordMemoryEntry
  \/ UpdateMemoryFeedback

LedgerSpec == Init /\ [][LedgerNext]_vars

\* ------------------------------------------------------- construction
\* The files a constructor can find: none, text that is not JSON, a JSON
\* object, and arrays of up to MaxItems items each of which is an item an
\* earlier session wrote or null.
SnapshotItems ==
  {snapshot(setAll(<<>>, <<chunkA, chunkB>>,
                   generateBatch(NewGenerator, chunkTexts(<<chunkA, chunkB>>)).vectors)).items[i] :
     i \in 1..2} \cup {NullItem}

SnapshotFiles ==
  {NoFile, Garbage, NotArray} \cup {JsonArray(items) : items \in SeqsUpTo(SnapshotItems, MaxItems)}

LedgerItems ==
  {ledgerDocument(<<MemoryEntry(1, 0, <<"a", "b">>, <<"b">>, <<"c1">>, Undefined("")),
                    MemoryEntry(2, 1, <<"a">>, <<"b">>, <<>>, String("helpful"))>>).items[i] :
     i \in 1..2} \cup {NullItem}

LedgerFiles ==
  {NoFile, Garbage, NotArray} \cup {JsonArray(items) : items \in SeqsUpTo(LedgerItems, MaxItems)}

LoadInit ==
  /\ \E file \in SnapshotFiles, ledger \in LedgerFiles : StoreInit(file) /\ LedgerInit(ledger)
  /\ ExtensionInit(defaultConfiguration, TRUE, {})
  /\ ContextInit

LoadNext ==
  \/ Construct
  \/ ConstructLedger

LoadSpec == LoadInit /\ [][LoadNext]_vars


\* ------------------------------------------------------ unawaited calls
\* An async method runs up to its first await inside the call and the rest
\* as a microtask.  generate and generateBatch hold no await, so they run to
\* their end inside the call; what search and addChunks do after their
\* await runs later, oldest continuation first.  A caller that awaits a call
\* lets its continuation run before it makes the next call.

\* The call record of a continuation: it belongs to the call counted last.
Returned(op, arg, ret, result, wrote) ==
  [Call(op, arg, ret, result, wrote) EXCEPT !.seq = call.seq]

\* A search that embeds anew when it resumes.
resumeSearchFresh(map, task) ==
  rank(map, textToVector(task.arg[1], vocabulary, idfScores), task.arg[2])

\* search after its await: the scan, sort and slice with the embedding the
\* continuation holds.
resumeSearch(map, task) == rank(map, task.queryEmbedding, task.arg[2])

\* A query of two words that the chunk texts hold in different chunks.
kindsQuery == <<"class", "function">>

\* search up to its await.
StartSearch ==
  \E q \in QueryPool \cup {kindsQuery} :
    /\ more
    /\ \E e \in {generate(gen, q)} :
         \E n \in 0..MaxK :
           /\ setGen(e.gen)
           /\ microtasks' = Append(microtasks,
                [op |-> "search", arg |-> <<q, n>>, queryEmbedding |-> e.vector])
           /\ call' = Call("search", <<q, n>>, "pending", <<>>, "none")
    /\ UNCHANGED <<chunks, disk, initialized>>
    /\ UNCHANGED <<ledgerVars, extensionVars, contextVars>>

\* addChunks up to its await.
StartAddChunks ==
  \E batch \in BatchPool :
    /\ more
    /\ \E b \in {generateBatch(gen, chunkTexts(batch))} :
         /\ setGen(b.gen)
         /\ microtasks' = Append(microtasks,
              [op |-> "addChunks", arg |-> batch, embeddings |-> b.vectors])
         /\ call' = Call("addChunks", batch, "pending", <<>>, "none")
    /\ UNCHANGED <<chunks, disk, initialized>>
    /\ UNCHANGED <<ledgerVars, extensionVars, contextVars>>

\* The oldest continuation runs to its end.
Resume ==
  /\ microtasks # <<>>
  /\ \E task \in {Head(microtasks)} :
       /\ microtasks' = Tail(microtasks)
       /\ IF task.op = "search"
            THEN /\ call' = Returned("search", task.arg, "ok", resumeSearch(chunks, task), "none")
                 /\ UNCHANGED <<chunks, disk>>
            ELSE \E m \in {setAll(chunks, task.arg, task.embeddings)}, w \in {"ok", "failed"} :
                   /\ chunks' = m
                   /\ saveToDisk(m, w)
                   /\ call' = Returned("addChunks", task.arg, "ok", <<>>, w)
  /\ UNCHANGED <<vocabulary, idfScores, documents, initialized>>
  /\ UNCHANGED <<ledgerVars, extensionVars, contextVars>>

UnawaitedNext ==
  \/ StartSearch
  \/ StartAddChunks
  \/ Resume

UnawaitedSpec == Init /\ [][UnawaitedNext]_vars

\* ------------------------------------------------------------ extension
\* The commands registerCommands registers.
Commands ==
  {"codememory.indexWorkspace", "codememory.explainCode", "codememory.findRelated",
   "codememory.askQuestion", "codememory.showMemoryStatus", "codememory.analyzeArchitecture",
   "codememory.suggestRefactoring", "codememory.analyzeCodeQuality"}

\* How many watcher events and index runs a behaviour holds.
MaxEvents == 3

\* How many times a file is rewritten.
MaxVersions == 2

\* getLLMConfig: the provider falls back to openai only when the setting is
\* empty, and the manifest's three values are not.
getLLMConfig(settings) == [provider |-> settings.llmProvider, apiKey |-> settings.apiKey]

\* new LLMInterface(config) throws for a provider other than openai and
\* anthropic.
LLMInterfaceThrows(config) == config.provider \notin {"openai", "anthropic"}

\* shouldIndexFile and getFilesToIndex: the file types indexed.
shouldIndexFile(path) == basename(path)[Len(basename(path))] = "ts"

\* The ids nanoid() hands to parsed chunks.
nanoidText == <<"n1", "n2", "n3", "n4", "n5", "n6", "n7", "n8">>

\* parseFile on the version of the file: a function in the first version, a
\* class in the rewritten one; every chunk gets a new id and the time of the
\* parse.
parseFile(path, version, n) ==
  IF version = 1
    THEN <<createChunk(nanoidText[n + 1], path, <<"a", "b">>, "function", "ab", 0, 1,
                       Undefined(""), Undefined(<<>>), n + 1)>>
    ELSE <<createChunk(nanoidText[n + 1], path, <<"a_b">>, "class", "a", 0, 60,
                       Undefined(""), String(<<"ab">>), n + 1)>>

Event(event, path, parsed) ==
  [event |-> event, path |-> path, chunks |-> parsed, seq |-> handled.seq + 1]

moreEvents == handled.seq < MaxEvents

\* indexFile of a file that is not ignored, on the indexer's own store with
\* the chunks of map and the snapshot file: parse, addChunks; no chunk of the
\* parsers is an import, so updateDependencies updates nothing.
indexFile(map, file, path, version) ==
  /\ \E batch \in {parseFile(path, version, parses)} :
       \E b \in {generateBatch(gen, chunkTexts(batch))} :
         \E m \in {setAll(map, batch, b.vectors)}, w \in {"ok", "failed"} :
           /\ setGen(b.gen)
           /\ chunks' = m
           /\ disk' = IF w = "ok" THEN snapshot(m) ELSE file
           /\ call' = Call("addChunks", batch, "ok", <<>>, w)
           /\ parses' = parses + Len(batch)
  /\ UNCHANGED <<initialized, microtasks>>

\* activate(): without a folder it shows an error and returns.  Otherwise
\* initializeExtension builds the indexer with its store (chunks), a second
\* store on the same snapshot for the context manager and the analyzers
\* (globalVectorStore), the context manager and, when an API key is set, the
\* LLM interface; then it registers
\* the commands, sets up the watcher and starts indexing when autoIndex is
\* on.  What initializeExtension throws is caught, logged and shown.
Activate ==
  /\ activation = "none"
  /\ IF ~workspaceFolder
       THEN /\ activation' = "no workspace"
            /\ UNCHANGED <<registered, watching, autoIndexing, storeVars, globalVectorStore>>
       ELSE /\ chunks' = loadFromDisk(disk)
            /\ globalVectorStore' = loadFromDisk(disk)
            /\ setGen(NewGenerator)
            /\ initialized' = TRUE
            /\ call' = Call("initialize", <<>>, "ok", <<>>, "none")
            /\ UNCHANGED <<disk, microtasks>>
            /\ IF getLLMConfig(configuration).apiKey /\ LLMInterfaceThrows(getLLMConfig(configuration))
                 THEN /\ activation' = "failed"
                      /\ UNCHANGED <<registered, watching, autoIndexing>>
                 ELSE /\ activation' = "initialized"
                      /\ registered' = registered \cup Commands
                      /\ watching' = TRUE
                      /\ autoIndexing' = configuration.autoIndex
  /\ UNCHANGED <<configuration, workspaceFolder, files, parses, handled, progress, snapshots,
                 statusBar>>
  /\ UNCHANGED <<ledgerVars, contextCache, projectContext, context, computed>>

\* A file appears; the watcher's onDidCreate indexes it when its type is one
\* of indexFileTypes.
OnDidCreate ==
  \E path \in Paths :
    /\ watching
    /\ moreEvents
    /\ files[path] = 0
    /\ files' = [files EXCEPT ![path] = 1]
    /\ IF shouldIndexFile(path)
         THEN /\ indexFile(chunks, disk, path, 1)
              /\ handled' = Event("create", path, parseFile(path, 1, parses))
         ELSE /\ handled' = Event("create", path, <<>>)
              /\ UNCHANGED <<storeVars, parses>>
    /\ UNCHANGED <<configuration, workspaceFolder, registered, activation, watching, autoIndexing,
                   progress, snapshots, statusBar>>
    /\ UNCHANGED <<ledgerVars, contextVars>>

\* A file is rewritten; onDidChange calls updateFile, which indexes the file
\* again.
OnDidChange ==
  \E path \in Paths :
    /\ watching
    /\ moreEvents
    /\ files[path] > 0
    /\ files[path] < MaxVersions
    /\ files' = [files EXCEPT ![path] = files[path] + 1]
    /\ IF shouldIndexFile(path)
         THEN /\ indexFile(chunks, disk, path, files[path] + 1)
              /\ handled' = Event("change", path, parseFile(path, files[path] + 1, parses))
         ELSE /\ handled' = Event("change", path, <<>>)
              /\ UNCHANGED <<storeVars, parses>>
    /\ UNCHANGED <<configuration, workspaceFolder, registered, activation, watching, autoIndexing,
                   progress, snapshots, statusBar>>
    /\ UNCHANGED <<ledgerVars, contextVars>>

\* A file goes; onDidDelete calls deleteFile, which logs the path.
OnDidDelete ==
  \E path \in Paths :
    /\ watching
    /\ moreEvents
    /\ files[path] > 0
    /\ files' = [files EXCEPT ![path] = 0]
    /\ handled' = Event("delete", path, <<>>)
    /\ UNCHANGED <<storeVars, parses>>
    /\ UNCHANGED <<configuration, workspaceFolder, registered, activation, watching, autoIndexing,
                   progress, snapshots, statusBar>>
    /\ UNCHANGED <<ledgerVars, contextVars>>

\* indexWorkspace, as the command or as started by activation: clearAll,
\* then indexFile for every file of the indexed types; every step of the
\* progress goes to the progress callback, which hands it to the status bar.
IndexWorkspace ==
  /\ autoIndexing \/ "codememory.indexWorkspace" \in registered
  /\ moreEvents
  /\ autoIndexing' = FALSE
  /\ IF files[sourceFile] > 0
       THEN /\ indexFile(<<>>, NoFile, sourceFile, files[sourceFile])
            /\ handled' = Event("index", sourceFile, parseFile(sourceFile, files[sourceFile], parses))
       ELSE /\ chunks' = <<>>
            /\ disk' = NoFile
            /\ call' = Call("clearAll", <<>>, "ok", <<>>, "none")
            /\ handled' = Event("index", <<>>, <<>>)
            /\ UNCHANGED <<vocabulary, idfScores, documents, initialized, microtasks, parses>>
  /\ \E delivered \in {updateProgress(progress,
                         IF files[sourceFile] > 0 THEN <<sourceFile>> ELSE <<>>)} :
       /\ snapshots' = delivered
       /\ progress' = Last(delivered)
       /\ statusBar' = progressCallback(statusBar, delivered)
  /\ UNCHANGED <<configuration, workspaceFolder, registered, activation, watching, files>>
  /\ UNCHANGED <<ledgerVars, contextVars>>

ExtensionNext ==
  \/ Activate
  \/ OnDidCreate
  \/ OnDidChange
  \/ OnDidDelete
  \/ IndexWorkspace

\* Every setting the manifest allows, with and without an open folder.  The
\* snapshot an earlier session left holds chunks of sourceFile only when the
\* workspace holds sourceFile.
ExtensionSpecInit ==
  /\ LedgerInit(NoFile)
  /\ ContextInit
  /\ \E file \in SeedFiles, settings \in Configurations, folder \in BOOLEAN,
        present \in {{}, {sourceFile}} :
       /\ file # NoFile => sourceFile \in present
       /\ StoreInit(file)
       /\ ExtensionInit(settings, folder, present)

ExtensionSpec == ExtensionSpecInit /\ [][ExtensionNext]_vars

\* --------------------------------------------------- exact-match queries
\* The id a second parse gives.
newId == "c9"

\* search with the text a stored chunk is embedded from.
SearchStored ==
  \E id \in ChunkIds :
    /\ more
    /\ MapHas(chunks, id)
    /\ \E e \in {generate(gen, createChunkText(MapGet(chunks, id).chunk))} :
         \E n \in 1..MaxK :
           /\ setGen(e.gen)
           /\ call' = searched("searchStored", <<id, n>>, e, n)
    /\ UNCHANGED <<chunks, disk, initialized>>
    /\ UNCHANGED <<ledgerVars, microtasks, extensionVars, contextVars>>

\* addChunks with a stored chunk's code under another id, as a second parse
\* of the same code hands it in.
AddParsedAgain ==
  \E id \in ChunkIds :
    /\ more
    /\ MapHas(chunks, id)
    /\ \E batch \in {<<[MapGet(chunks, id).chunk EXCEPT !.id = newId]>>} :
         \E b \in {generateBatch(gen, chunkTexts(batch))} :
           \E m \in {setAll(chunks, batch, b.vectors)}, w \in {"ok", "failed"} :
             /\ setGen(b.gen)
             /\ chunks' = m
             /\ saveToDisk(m, w)
             /\ call' = Call("addChunks", batch, "ok", <<>>, w)
    /\ UNCHANGED initialized
    /\ UNCHANGED <<ledgerVars, microtasks, extensionVars, contextVars>>

ExactNext ==
  \/ Next
  \/ AddParsedAgain
  \/ SearchStored

ExactSpec == Init /\ [][ExactNext]_vars

\* ------------------------------------------------- the semantic context
\* /\b[a-zA-Z_][a-zA-Z0-9_]{2,}\b/ on one lexeme: a run of at least three
\* word characters that does not start with a digit.
digits == {"0", "1", "2", "3", "4", "5", "6", "7", "8", "9"}

identifierRegex(lexeme) ==
  /\ IsWord(lexeme)
  /\ Len(Chars(lexeme)) >= 3
  /\ Chars(lexeme)[1] \notin digits
  /\ \A i \in 1..Len(Chars(lexeme)) : Chars(lexeme)[i] # "."

commonWords == {"var", "let", "const", "function", "class", "import", "export",
                "return", "if", "else", "for", "while"}

\* [...new Set(matches)]: the first occurrence of every match, in order.
RECURSIVE unique(_, _)
unique(matches, seen) ==
  IF matches = <<>> THEN <<>>
  ELSE IF Head(matches) \in seen THEN unique(Tail(matches), seen)
  ELSE <<Head(matches)>> \o unique(Tail(matches), seen \cup {Head(matches)})

isCommonWord(word) == \E w \in commonWords : toLowerCase(Chars(word)) = Chars(w)

uniqueIdentifiers(chunk) ==
  Slice(SelectSeq(unique(SelectSeq(chunk.content, identifierRegex), {}),
                  LAMBDA word : ~isCommonWord(word)), 10)

\* extractKeywords that filters the name, type and language as well.
extractKeywordsFiltered(chunk) ==
  SelectSeq(<<chunk.name, chunk.type, chunk.language>>, LAMBDA word : ~isCommonWord(word))
  \o uniqueIdentifiers(chunk)

extractKeywords(chunk) == <<chunk.name, chunk.type, chunk.language>> \o uniqueIdentifiers(chunk)

typeDescriptions ==
  [function |-> "Function", class |-> "Class definition", method |-> "Method",
   module |-> "Module", variable |-> "Variable declaration", import |-> "Import statement"]

generateChunkSummary(chunk) ==
  [typeDesc |-> IF chunk.type \in DOMAIN typeDescriptions
                  THEN typeDescriptions[chunk.type] ELSE chunk.type,
   name |-> chunk.name, location |-> basename(chunk.filepath),
   startLine |-> chunk.startLine, endLine |-> chunk.endLine]

\* Importances are in thousandths.
typeWeights ==
  [class |-> (8 * Unit) \div 10, function |-> (7 * Unit) \div 10,
   method |-> (6 * Unit) \div 10, module |-> (9 * Unit) \div 10,
   variable |-> (4 * Unit) \div 10, import |-> (3 * Unit) \div 10]

MathMin(a, b) == IF a < b THEN a ELSE b

\* calculateChunkImportance without the final Math.min.
calculateChunkImportanceUncapped(chunk) ==
  LET weight == IF chunk.type \in DOMAIN typeWeights
                  THEN typeWeights[chunk.type] ELSE Unit \div 2
      lines == chunk.endLine - chunk.startLine + 1
  IN weight + (IF truthy(chunk.metadata.docstring) THEN Unit \div 10 ELSE 0)
            + (IF lines > 50 THEN Unit \div 10 ELSE 0)
            + (IF lines > 100 THEN Unit \div 10 ELSE 0)

calculateChunkImportance(chunk) ==
  LET weight == IF chunk.type \in DOMAIN typeWeights
                  THEN typeWeights[chunk.type] ELSE Unit \div 2
      lines == chunk.endLine - chunk.startLine + 1
  IN MathMin(weight + (IF truthy(chunk.metadata.docstring) THEN Unit \div 10 ELSE 0)
                    + (IF lines > 50 THEN Unit \div 10 ELSE 0)
                    + (IF lines > 100 THEN Unit \div 10 ELSE 0), Unit)

\* The part of a SemanticContext that depends on the chunk alone.
describe(chunk, keywords, importance) ==
  [chunk |-> chunk, keywords |-> keywords, summary |-> generateChunkSummary(chunk),
   importance |-> importance, seq |-> 1]

\* ---- chunks for the functions above
\* The six types of CodeChunk, and one a caller's cast can bring in.
TypePool == {"function", "class", "method", "module", "variable", "import", "interface"}

\* No docstring, an empty one, a written one.
DocstringPool == {Undefined(<<>>), String(<<>>), String(<<"ab">>)}

\* Line spans of 1, 50, 51, 100 and 101 lines.
SpanPool == {<<0, 0>>, <<3, 52>>, <<0, 50>>, <<0, 99>>, <<2, 102>>}

\* Contents: no identifier; twelve distinct identifiers outside commonWords
\* among common words in both cases, one twice and two too short; a function
\* body.
ContentPool ==
  {<<"a", "b">>,
   <<"return", "Class", "const", "get", "set", "api", "sql", "new", "try", "map", "val",
     "init", "rest", "test", "spec", "get", "ab", "it">>,
   <<"function", "query", "(", "error", ")", "{", "return", "select", "}">>}

\* Every type, docstring and span with the function body, and every type with
\* the other contents.
SemanticChunks ==
  {createChunk("c1", sourceFile, <<"function", "query", "(", "error", ")", "{", "return", "select", "}">>,
               type, "query", span[1], span[2], Undefined(""), docstring, 1) :
     type \in TypePool, span \in SpanPool, docstring \in DocstringPool}
  \cup {createChunk("c1", sourceFile, content, type, "query", 0, 0,
                    Undefined(""), Undefined(<<>>), 1) :
          content \in ContentPool, type \in TypePool}

\* getOrCreateSemanticContext on a cache miss, the fields computed from the
\* chunk alone.
DescribeChunk ==
  \E chunk \in SemanticChunks :
    /\ computed' = describe(chunk, extractKeywords(chunk), calculateChunkImportance(chunk))
    /\ UNCHANGED <<storeVars, ledgerVars, extensionVars, contextCache, projectContext, context, globalVectorStore>>

SemanticNext == DescribeChunk

SemanticSpec == Init /\ [][SemanticNext]_vars

\* ------------------------------------------------------ getRelevantContext
\* new Set(query.toLowerCase().split(/\s+/)): the words of the model's
\* queries are parted by single blanks; the empty query splits into [""].
wordSet(query) ==
  IF query = <<>> THEN {<<>>} ELSE {toLowerCase(Chars(query[i])) : i \in 1..Len(query)}

MathMax(a, b) == IF a > b THEN a ELSE b

\* An entry with its score intersection.size / Math.max(queryWords.size,
\* entryWords.size), kept as the fraction over / outOf.
scoreEntry(entry, queryWords) ==
  [entry |-> entry,
   over  |-> Cardinality(queryWords \cap wordSet(entry.query)),
   outOf |-> MathMax(Cardinality(queryWords), Cardinality(wordSet(entry.query)))]

\* Array.prototype.sort with (a, b) => b.score - a.score: stable, highest
\* score first.
RECURSIVE insertByOverlap(_, _)
insertByOverlap(sorted, item) ==
  IF sorted = <<>> THEN <<item>>
  ELSE IF Head(sorted).over * item.outOf >= item.over * Head(sorted).outOf
         THEN <<Head(sorted)>> \o insertByOverlap(Tail(sorted), item)
         ELSE <<item>> \o sorted

RECURSIVE sortByOverlap(_)
sortByOverlap(items) ==
  IF items = <<>> THEN <<>>
  ELSE insertByOverlap(sortByOverlap(SubSeq(items, 1, Len(items) - 1)), items[Len(items)])

\* item.score > 0.2
overFifth(item) == 5 * item.over > item.outOf

scoreAll(map, query) ==
  Tabulate([i \in 1..Len(map) |-> scoreEntry(map[i], wordSet(query))])

entriesOf(items) == Tabulate([i \in 1..Len(items) |-> items[i].entry])

\* findRelatedMemories whose slice takes one entry too many.
findRelatedMemoriesThrough(map, query, maxResults) ==
  entriesOf(SelectSeq(SliceThrough(sortByOverlap(scoreAll(map, query)), maxResults), overFifth))

findRelatedMemories(map, query, maxResults) ==
  entriesOf(SelectSeq(Slice(sortByOverlap(scoreAll(map, query)), maxResults), overFifth))

SemanticContext(chunk, relatedChunks) ==
  [chunkId |-> chunk.id, embedding |-> <<>>, relatedChunks |-> relatedChunks,
   keywords |-> extractKeywords(chunk), summary |-> generateChunkSummary(chunk),
   importance |-> calculateChunkImportance(chunk)]

idsOf(results) == Tabulate([i \in 1..Len(results) |-> results[i].chunk.id])

\* The cache entry set on a miss, and what getOrCreateSemanticContext hands
\* back with it.
cacheSet(g, cache, made) ==
  [gen |-> g, cache |-> (made.chunkId :> made) @@ cache, context |-> made, threw |-> FALSE,
   computed |-> {made.chunkId}]

\* The miss branch, given what generate gave inside getRelatedChunks' search.
cacheMiss(map, cache, chunk, e) ==
  IF e.threw
    THEN [gen |-> e.gen, cache |-> cache, context |-> <<>>, threw |-> TRUE, computed |-> {}]
    ELSE cacheSet(e.gen, cache,
                  SemanticContext(chunk, idsOf(getRelatedChunks(map, e, chunk.id, 3))))

\* getOrCreateSemanticContext(chunk) on the store map with the generator g:
\* a cached context is returned as it is; otherwise getRelatedChunks(chunk.id,
\* 3) embeds the chunk's text, and the new context goes into the cache.
getOrCreateSemanticContext(map, g, cache, chunk) ==
  IF chunk.id \in DOMAIN cache
    THEN [gen |-> g, cache |-> cache, context |-> cache[chunk.id], threw |-> FALSE,
          computed |-> {}]
    ELSE cacheMiss(map, cache, chunk,
                   IF MapHas(map, chunk.id) THEN generate(g, createChunkText(chunk))
                   ELSE [gen |-> g, vector |-> ZeroVector, threw |-> FALSE])

\* result.context = context, in front of the results enhanced after it.
attach(result, c, rest) ==
  [gen |-> rest.gen, cache |-> rest.cache,
   chunks |-> <<[chunk |-> result.chunk, score |-> result.score, context |-> c.context]>>
              \o rest.chunks,
   threw |-> rest.threw, computed |-> c.computed \cup rest.computed]

\* The loop of getRelevantContext over the search results, in order; it stops
\* at the first await that rejects.
RECURSIVE enhance(_, _, _, _)
RECURSIVE enhanceNext(_, _, _)
enhanceNext(map, results, c) ==
  IF c.threw
    THEN [gen |-> c.gen, cache |-> c.cache, chunks |-> <<>>, threw |-> TRUE, computed |-> {}]
    ELSE attach(Head(results), c, enhance(map, c.gen, c.cache, Tail(results)))

enhance(map, g, cache, results) ==
  IF results = <<>>
    THEN [gen |-> g, cache |-> cache, chunks |-> <<>>, threw |-> FALSE, computed |-> {}]
    ELSE enhanceNext(map, results, getOrCreateSemanticContext(map, g, cache, Head(results).chunk))

\* The questions recorded in the ledger, and the queries handed to
\* getRelevantContext: against a b the questions score 1/3 and 1/5, against
\* a ab they score 2/3 and 2/5.
QuestionPool == {<<"a", "ab", "ts">>, <<"a", "m", "ts", "ab", "to">>}

ContextQueries == QueryPool \cup {<<"a", "ab">>}

contextMore == context.seq < MaxContexts

Context(op, query, maxResults, ret) ==
  [op |-> op, query |-> query, maxResults |-> maxResults, ret |-> ret, chunks |-> <<>>,
   relatedMemories |-> <<>>, computed |-> {}, dropped |-> context.dropped,
   seq |-> context.seq + 1]

\* getRelevantContext(query, maxResults): search, then the context of every
\* hit, then the related memories.  The callers ask for 10 and 15 results,
\* more than the stores of the model hold.
GetRelevantContext ==
  \E query \in ContextQueries, maxResults \in {MaxK} :
    /\ contextMore
    /\ \E e \in {generate(gen, query)} :
         IF e.threw
           THEN /\ setGen(e.gen)
                /\ context' = Context("getRelevantContext", query, maxResults, "TypeError")
                /\ UNCHANGED contextCache
           ELSE \E r \in {enhance(chunks, e.gen, contextCache, search(chunks, e, maxResults))} :
                  /\ setGen(r.gen)
                  /\ contextCache' = r.cache
                  /\ context' =
                       IF r.threw
                         THEN Context("getRelevantContext", query, maxResults, "TypeError")
                         ELSE [Context("getRelevantContext", query, maxResults, "ok")
                                 EXCEPT !.chunks = r.chunks, !.computed = r.computed,
                                        !.relatedMemories =
                                          findRelatedMemories(memoryEntries, query, 5)]
    /\ UNCHANGED <<chunks, disk, initialized, call, microtasks>>
    /\ UNCHANGED <<ledgerVars, extensionVars, projectContext, computed, globalVectorStore>>

\* A clear that leaves the Map as it is.
clearNothing(cache) == cache

\* Map.prototype.clear
clear(cache) == <<>>

\* clearCache()
ClearCache ==
  /\ contextCache' = clear(contextCache)
  /\ context' = [noContext EXCEPT !.op = "clearCache", !.dropped = DOMAIN contextCache,
                                  !.seq = context.seq]
  /\ UNCHANGED <<storeVars, ledgerVars, extensionVars, projectContext, computed, globalVectorStore>>

questionsMore == nanoids < MaxQuestions

\* The question handler's recordMemoryEntry(question, response, ids).
RecordQuestion ==
  \E question \in QuestionPool :
    /\ questionsMore
    /\ recordMemoryEntry([query |-> question, response |-> <<"b">>,
                          relevantChunks |-> <<>>, feedback |-> Undefined("")], 1)
    /\ UNCHANGED <<storeVars, extensionVars, contextVars>>

MemoryNext == RecordQuestion \/ GetRelevantContext

\* A workspace that has not been indexed.
MemoryInit ==
  /\ StoreInit(NoFile)
  /\ LedgerInit(NoFile)
  /\ ExtensionInit(defaultConfiguration, TRUE, {})
  /\ ContextInit

MemorySpec == MemoryInit /\ [][MemoryNext]_vars

ContextNext == GetRelevantContext \/ ClearCache \/ DeleteChunks

ContextSpec == Init /\ [][ContextNext]_vars

\* ---------------------------------------------------------------- restart
\* The vocabulary of the session that wrote the snapshot of SeedFiles: the
\* token indices in effect when the embeddings in that file were computed.
seedVocabulary == generateBatch(NewGenerator, chunkTexts(<<chunkA, chunkB>>)).gen.vocabulary

\* Sessions that construct the store on the snapshot and query it; nothing
\* is written, so every stored embedding is one the snapshot held.
RestartNext == Construct \/ Search \/ SearchByCode \/ GetRelatedChunks

RestartSpec == Init /\ [][RestartNext]_vars

\* Sessions in which chunks are written again between the queries.
RewriteNext == GetRelevantContext \/ UpdateChunk \/ AddChunks

RewriteSpec == Init /\ [][RewriteNext]_vars

\* ------------------------------------------- architectural patterns
\* The patterns detectArchitecturalPatterns looks for, each with the
\* indicators it searches the store for.
patterns ==
  << [name |-> "MVC",
      indicators |-> << <<"controllers", "/">>, <<"models", "/">>, <<"views", "/">>,
                        <<"Controller", ".">>, <<"Model", ".">>, <<"View", ".">> >>],
     [name |-> "Repository Pattern",
      indicators |-> << <<"repository", "/">>, <<"repositories", "/">>,
                        <<"Repository", ".">>, <<"Repo", ".">> >>],
     [name |-> "Service Layer",
      indicators |-> << <<"services", "/">>, <<"service", "/">>,
                        <<"Service", ".">>, <<"Manager", ".">> >>],
     [name |-> "Factory Pattern",
      indicators |-> << <<"factory", "/">>, <<"factories", "/">>,
                        <<"Factory", ".">>, <<"Creator", ".">> >>] >>

\* The filter at the end of searchPatternIndicators: of the results with one
\* chunk id the first stays.
RECURSIVE deduplicate(_, _)
deduplicate(results, seen) ==
  IF results = <<>> THEN <<>>
  ELSE IF Head(results).chunk.id \in seen THEN deduplicate(Tail(results), seen)
  ELSE <<Head(results)>> \o deduplicate(Tail(results), seen \cup {Head(results).chunk.id})

filepaths(results) == Tabulate([i \in 1..Len(results) |-> results[i].chunk.filepath])

\* The entry detectArchitecturalPatterns pushes for a pattern with results.
detected(name, results) ==
  [name |-> name,
   description |-> <<name, "pattern detected in the codebase">>,
   examples |-> Slice(filepaths(results), 3),
   locations |-> filepaths(results)]

\* The if of detectArchitecturalPatterns over the results of one pattern.
pushDetected(project, name, results) ==
  IF Len(results) > 0
    THEN [project EXCEPT !.patterns = Append(@, detected(name, results))]
    ELSE project

\* vectorStore.search(indicator, 5) up to its await, for indicator i of
\* pattern p: generate runs inside the call, the scan is left to the
\* continuation, which holds the results of the pattern's earlier indicators.
\* A search that throws ends the detection.
searchIndicator(p, i, results) ==
  \E e \in {generate(gen, patterns[p].indicators[i])} :
    /\ setGen(e.gen)
    /\ microtasks' =
         IF e.threw THEN <<>>
         ELSE <<[op |-> "searchPatternIndicators", pattern |-> p, indicator |-> i,
                 results |-> results, queryEmbedding |-> e.vector]>>

\* new ContextManager(workspacePath, vectorStore) in a workspace without
\* manifest files: analyzeProjectContext is called and not awaited; it sets
\* projectContext with no patterns and runs detectArchitecturalPatterns up to
\* the await of its first search.
ConstructContextManager ==
  /\ context.op = "constructor"
  /\ microtasks = <<>>
  /\ contextCache' = <<>>
  /\ projectContext' = newProjectContext
  /\ searchIndicator(1, 1, <<>>)
  /\ context' = [noContext EXCEPT !.op = "ContextManager"]
  /\ UNCHANGED <<chunks, disk, initialized, call>>
  /\ UNCHANGED <<ledgerVars, extensionVars, computed, globalVectorStore>>

\* detectArchitecturalPatterns from one await of a search to the next: the
\* scan of the search, and after a pattern's last indicator the filter and
\* the push.
DetectArchitecturalPatterns ==
  /\ microtasks # <<>>
  /\ Head(microtasks).op = "searchPatternIndicators"
  /\ \E task \in {Head(microtasks)} :
       \E results \in {task.results \o rank(chunks, task.queryEmbedding, 5)} :
         IF task.indicator < Len(patterns[task.pattern].indicators)
           THEN /\ searchIndicator(task.pattern, task.indicator + 1, results)
                /\ UNCHANGED projectContext
           ELSE /\ projectContext' =
                     pushDetected(projectContext, patterns[task.pattern].name,
                                  deduplicate(results, {}))
                /\ IF task.pattern < Len(patterns)
                     THEN searchIndicator(task.pattern + 1, 1, <<>>)
                     ELSE /\ microtasks' = <<>>
                          /\ UNCHANGED <<vocabulary, idfScores, documents>>
  /\ UNCHANGED <<chunks, disk, initialized, call>>
  /\ UNCHANGED <<ledgerVars, extensionVars, contextCache, context, computed, globalVectorStore>>

\* getProjectContext()
GetProjectContext ==
  /\ context.op # "constructor"
  /\ contextMore
  /\ context' = Context("getProjectContext", <<>>, 0, projectContext)
  /\ UNCHANGED <<storeVars, ledgerVars, extensionVars, contextCache, projectContext, computed,
                 globalVectorStore>>

ProjectNext ==
  \/ ConstructContextManager
  \/ DetectArchitecturalPatterns
  \/ GetProjectContext

ProjectSpec == Init /\ [][ProjectNext]_vars

\* ----------------------------------------------------- vector assembly
\* The words of the texts handed to textToVector, and the texts.
VectorWords == {"a", "b"}

VectorTexts == UNION {[1..n -> VectorWords] : n \in 1..3}

tokenA == Chars("a")

tokenB == Chars("b")

\* The vocabulary entries of the tokens of these texts, in a generator that
\* has seen more tokens than the vector has dimensions: a word was numbered
\* early, with an index below the dimension (in one case the slot the other
\* word's hash folds to), or late, with an index beyond it.
VocabularyPool ==
  [{tokenA} -> {0, hashedSlot(tokenB), dimension}] \X
  [{tokenB} -> {1, hashedSlot(tokenA), dimension + 1}] \X
  [{bigram(tokenA, tokenB)} -> {2, dimension + 2}] \X
  [{bigram(tokenB, tokenA)} -> {3, dimension + 3}]

\* One vocabulary of the pool as a Map.
vocabularyOf(parts) ==
  parts[1] @@ parts[2] @@ parts[3] @@ parts[4]
    @@ (bigram(tokenA, tokenA) :> 4) @@ (bigram(tokenB, tokenB) :> 5)

\* An IDF table of that generator: ln 2 for the words, ln 3 and ln 4 for
\* the bigrams.
idfTable ==
  (tokenA :> MathLog(2, 1)) @@ (tokenB :> MathLog(2, 1))
    @@ (bigram(tokenA, tokenB) :> MathLog(3, 1)) @@ (bigram(tokenB, tokenA) :> MathLog(3, 1))
    @@ (bigram(tokenA, tokenA) :> MathLog(4, 1)) @@ (bigram(tokenB, tokenB) :> MathLog(4, 1))

\* textToVector(text) with the vocabulary and the IDF table given: the vector
\* as the TF-IDF loop leaves it, and the vector returned.
assemble(text, vocab, idf) ==
  [seq |-> 1, text |-> text, vocabulary |-> vocab, idfScores |-> idf,
   assembled |-> tfidfLoop(computeTF(tokenize(text)), Len(tokenize(text)), vocab, idf,
                           ZeroVector),
   vector |-> textToVector(text, vocab, idf)]

TextToVector ==
  \E text \in VectorTexts, parts \in VocabularyPool :
    /\ computed.seq = 0
    /\ computed' = assemble(text, vocabularyOf(parts), idfTable)
    /\ UNCHANGED <<storeVars, ledgerVars, extensionVars, contextCache, projectContext, context,
                   globalVectorStore>>

VectorNext == TextToVector

VectorSpec == Init /\ [][VectorNext]_vars

\* -------------------------------------------------------- the status bar
\* The behaviour is cut off after MaxTimers intervals have been made.
moreTimers == statusBar.created < MaxTimers

\* The messages the commands hand to setLoading, and none.
MessagePool == {"", "Thinking..."}

\* The progress snapshots handed to updateIndexingStatus.
ProgressPool ==
  {[newProgress EXCEPT !.status = s, !.totalFiles = 1, !.processedFiles = n] :
     s \in {"idle", "indexing", "completed", "error"}, n \in {0, 1}}

SetLoading ==
  \E loading \in BOOLEAN, message \in MessagePool :
    /\ loading => moreTimers
    /\ statusBar' = setLoading(statusBar, loading, message)
    /\ UNCHANGED <<storeVars, ledgerVars, contextVars>>
    /\ UNCHANGED <<configuration, workspaceFolder, registered, activation, watching, autoIndexing,
                   files, parses, handled, progress, snapshots>>

\* An interval of the manager that is running fires.
Spin ==
  \E timer \in statusBar.timers :
    /\ statusBar' = spin(statusBar, timer)
    /\ UNCHANGED <<storeVars, ledgerVars, contextVars>>
    /\ UNCHANGED <<configuration, workspaceFolder, registered, activation, watching, autoIndexing,
                   files, parses, handled, progress, snapshots>>

UpdateIndexingStatus ==
  \E report \in ProgressPool :
    /\ statusBar' = updateIndexingStatus(statusBar, report)
    /\ UNCHANGED <<storeVars, ledgerVars, contextVars>>
    /\ UNCHANGED <<configuration, workspaceFolder, registered, activation, watching, autoIndexing,
                   files, parses, handled, progress, snapshots>>

Dispose ==
  /\ statusBar' = dispose(statusBar)
  /\ UNCHANGED <<storeVars, ledgerVars, contextVars>>
  /\ UNCHANGED <<configuration, workspaceFolder, registered, activation, watching, autoIndexing,
                 files, parses, handled, progress, snapshots>>

StatusBarNext ==
  \/ SetLoading
  \/ Spin
  \/ UpdateIndexingStatus
  \/ Dispose

StatusBarSpec == Init /\ [][StatusBarNext]_vars

\* ------------------------------------------------------- LLMInterface
\* buildContext is modelled on lengths: a string is the number of its
\* characters, a list of strings the sequence of their lengths.
contextWindow == 8000

RECURSIVE SumSeq(_)
SumSeq(s) == IF s = <<>> THEN 0 ELSE Head(s) + SumSeq(Tail(s))

\* Array.prototype.join with a separator of so many characters.
joinLength(parts, separator) ==
  IF parts = <<>> THEN 0 ELSE SumSeq(parts) + separator * (Len(parts) - 1)

\* The number of digits of a line number.
decimal(n) == IF n < 10 THEN 1 ELSE IF n < 100 THEN 2 ELSE 3

\* formatChunkForContext: the template with the chunk's fields, the first ten
\* lines of the content and the mark of more lines; lines holds the length of
\* every line of the content, docstring 0 where the chunk has none.
formatChunkForContext(result) ==
  LET chunk   == result.chunk
      preview == joinLength(Slice(chunk.lines, 10), 1)
      hasMore == Len(chunk.lines) > 10
  IN 7 + chunk.filepath
     + 7 + chunk.type + 3 + chunk.name
     + 8 + decimal(chunk.startLine) + 1 + decimal(chunk.endLine)
     + 1 + (IF chunk.docstring > 0 THEN 5 + chunk.docstring ELSE 0)
     + 5 + chunk.language
     + 1 + preview + (IF hasMore THEN 16 ELSE 0)
     + 5

\* The parts buildContext pushes before the chunks; project is <<>> where
\* the argument is left out.
contextHeader(project) ==
  (IF project = <<>> THEN <<>>
   ELSE <<23, 11 + joinLength(project.language, 2), 12 + joinLength(project.frameworks, 2)>>
        \o (IF Len(project.patterns) > 0
              THEN <<10 + joinLength(project.patterns, 2)>> ELSE <<>>)
        \o <<0>>)
  \o <<21>>

\* The loop of buildContext: the chunks taken, up to the first whose string
\* makes totalLength pass maxContextLength.
RECURSIVE takeChunks(_, _, _)
takeChunks(results, totalLength, maxContextLength) ==
  IF results = <<>> THEN <<>>
  ELSE IF totalLength + formatChunkForContext(Head(results)) > maxContextLength THEN <<>>
  ELSE <<Head(results)>>
       \o takeChunks(Tail(results), totalLength + formatChunkForContext(Head(results)),
                     maxContextLength)

\* buildContext(chunks, projectContext): the results whose strings are in
\* the context and the length of parts.join('\n').
buildContext(results, project) ==
  LET header == contextHeader(project)
      taken  == takeChunks(results, joinLength(header, 1), (contextWindow * 7) \div 10)
  IN [seq |-> 1, chunks |-> results, projectContext |-> project, taken |-> taken,
      length |-> joinLength(header
                   \o Tabulate([i \in 1..Len(taken) |-> formatChunkForContext(taken[i])]), 1)]

\* A chunk of src/m.ts, a function, with lines of so many characters.
promptChunk(id, lines, docstring) ==
  [id |-> id, filepath |-> 8, type |-> 8, name |-> 2, startLine |-> 1,
   endLine |-> Len(lines), docstring |-> docstring, language |-> 10, lines |-> lines]

\* Chunks of one long line, of twelve lines, and of one short line with a
\* docstring.
PromptChunks ==
  {promptChunk("c1", <<2700>>, 0), promptChunk("c2", <<2742>>, 0),
   promptChunk("c3", <<40, 40, 40, 40, 40, 40, 40, 40, 40, 40, 40, 40>>, 0),
   promptChunk("c4", <<30>>, 20), promptChunk("c5", <<5600>>, 0)}

\* The ranked result lists: up to MaxResults chunks, none twice.
ResultLists ==
  {results \in UNION {[1..n -> PromptChunks] : n \in 0..MaxResults} :
     \A i, j \in 1..Len(results) : results[i] = results[j] => i = j}

\* No project context, one of a TypeScript project, one with a framework and
\* two patterns.
ProjectPool ==
  {<<>>,
   [language |-> <<10, 10>>, frameworks |-> <<>>, patterns |-> <<>>],
   [language |-> <<10, 10>>, frameworks |-> <<5>>, patterns |-> <<3, 13>>]}

BuildContext ==
  \E results \in ResultLists, project \in ProjectPool :
    /\ computed.seq = 0
    /\ computed' = buildContext(Tabulate([i \in 1..Len(results) |->
                                   [chunk |-> results[i], score |-> i]]), project)
    /\ UNCHANGED <<storeVars, ledgerVars, extensionVars, contextCache, projectContext, context,
                   globalVectorStore>>

PromptNext == BuildContext

PromptSpec == Init /\ [][PromptNext]_vars

\* =============================================================== claims
mutators == {"addChunks", "updateChunk", "deleteChunks"}

operations == mutators \cup {"search", "searchByCode", "getRelatedChunks", "getChunkById", "getStats"}

\* C1: whenever addChunks, updateChunk or deleteChunks has returned normally,
\* the snapshot file holds exactly the in-memory map of that moment; a call
\* whose file write failed does not return normally.
C1_DurableOnReturn ==
  (call.op \in mutators /\ call.ret = "ok") => disk = snapshot(chunks)

\* C2: after a mutating call whose write completed, a new store constructed
\* on the same path holds the same mapping: same ids, same chunk field
\* values (metadata included), same embeddings.
C2_RoundTrip ==
  (call.op \in mutators /\ call.wrote = "ok") => loadFromDisk(disk) = chunks

\* C3: the ledger recordMemoryEntry inserts into never holds more than
\* maxMemoryEntries entries.
C3_LedgerCap == Len(memoryEntries) <= maxMemoryEntries

\* The ids of the entries of a ledger file, in file order.
fileIds(file) == [i \in 1..Len(file.items) |-> file.items[i].entry.id]

\* The ids of the n most recently recorded entries, newest first: nanoid
\* gives out 1, 2, 3, ... in the model.
newestIds(n) == [i \in 1..n |-> nanoids + 1 - i]

\* C4: once more than maxMemoryEntries entries have been recorded, the ledger
\* file written by recordMemoryEntry holds exactly the maxMemoryEntries most
\* recently recorded entries, newest first, whatever their timestamps.
C4_PersistedNewest ==
  (/\ ledgerCall.op = "recordMemoryEntry"
   /\ ledgerCall.ret = "ok"
   /\ nanoids > maxMemoryEntries)
  => fileIds(ledgerFile) = newestIds(maxMemoryEntries)

\* C5: a read or write operation called on a store whose initialize has not
\* been called fails with NotInitialized.
C5_NotInitialized ==
  (call.op \in operations /\ ~call.initialized) => call.ret = "NotInitialized"

\* A malformed file: text that is not JSON, a JSON value that is not an
\* array, or an array with an item that is not an object.
malformed(file) ==
  \/ file.kind \in {"garbage", "object"}
  \/ file.kind = "array" /\ \E i \in 1..Len(file.items) : file.items[i].isNull

\* C6: a store (a ledger) constructed on a malformed file is empty.
C6_MalformedIsEmpty ==
  /\ (call.op = "constructor" /\ malformed(disk)) => chunks = <<>>
  /\ (ledgerCall.op = "constructor" /\ malformed(ledgerFile)) => memoryEntries = <<>>

batchIds(batch) == {batch[i].id : i \in 1..Len(batch)}

\* The last chunk of the batch that carries the id.
lastWithId(batch, id) ==
  batch[CHOOSE i \in 1..Len(batch) :
          batch[i].id = id /\ \A j \in (i + 1)..Len(batch) : batch[j].id # id]

noDuplicateIds(map) == \A i, j \in 1..Len(map) : map[i].id = map[j].id => i = j

\* C8: addChunks overwrites the entry of an id that is already stored, or
\* that came earlier in the batch, with the new chunk and embedding; the
\* number of entries grows only by the ids that were not stored; the store
\* never holds two entries for one id.
C8_IdempotentAdd ==
  /\ noDuplicateIds(chunks)
  /\ [][/\ noDuplicateIds(chunks')
        /\ call'.op = "addChunks" =>
             LET batch == call'.arg
             IN /\ MapKeys(chunks') = MapKeys(chunks) \cup batchIds(batch)
                /\ Len(chunks') = Len(chunks) + Cardinality(batchIds(batch) \ MapKeys(chunks))
                /\ \A id \in batchIds(batch) :
                     LET new == lastWithId(batch, id)
                     IN /\ MapGet(chunks', id).chunk = new
                        /\ MapGet(chunks', id).embedding =
                             textToVector(createChunkText(new), vocabulary', idfScores')
                /\ \A id \in MapKeys(chunks) \ batchIds(batch) :
                     MapGet(chunks', id) = MapGet(chunks, id)]_vars

\* addChunks([chunkA, chunkA2]) on a store that held c1 and c2: one id twice
\* in the batch and stored before; two entries after, c1 holding chunkA2.
C8_Witness ==
  /\ call.op = "addChunks"
  /\ call.arg = <<chunkA, chunkA2>>
  /\ MapKeys(chunks) = {"c1", "c2"}
  /\ Len(chunks) = 2
  /\ MapGet(chunks, "c1").chunk = chunkA2

resultIds(results) == {results[i].chunk.id : i \in 1..Len(results)}

\* The ids getStats counts: a type or a language is counted once for every
\* stored chunk that has it, and the total is the number of stored ids.
statsCountStored(stats, map) ==
  /\ stats.totalChunks = Cardinality(MapKeys(map))
  /\ \A field \in {"type", "language"} :
       LET table == IF field = "type" THEN stats.chunksByType ELSE stats.chunksByLanguage
       IN /\ DOMAIN table = {MapGet(map, id).chunk[field] : id \in MapKeys(map)}
          /\ \A v \in DOMAIN table :
               table[v] = Cardinality({id \in MapKeys(map) : MapGet(map, id).chunk[field] = v})

\* C9: once deleteChunks(ids) has returned, no id of ids is stored; an id
\* that is not stored stays so through every call on the store except an
\* addChunks or updateChunk that carries it; and what getStats counts,
\* getChunkById returns and the searches list are stored ids only.  A store
\* constructed anew on a snapshot that is up to date holds the same ids.
C9_DeletionComplete ==
  [][/\ call'.op = "deleteChunks" => MapKeys(chunks') \cap Range(call'.arg) = {}
     /\ call'.op \in {"addChunks", "updateChunk"} =>
          MapKeys(chunks') \subseteq MapKeys(chunks) \cup batchIds(call'.arg)
     /\ call'.op \notin {"addChunks", "updateChunk", "constructor"} =>
          MapKeys(chunks') \subseteq MapKeys(chunks)
     /\ (call'.op = "constructor" /\ disk = snapshot(chunks)) =>
          MapKeys(chunks') = MapKeys(chunks)
     /\ call'.op \in {"search", "searchByCode", "getRelatedChunks"} =>
          resultIds(call'.result) \subseteq MapKeys(chunks')
     /\ call'.op = "getChunkById" =>
          (call'.result # <<>> <=> call'.arg[1] \in MapKeys(chunks'))
     /\ call'.op = "getStats" => statsCountStored(call'.result, chunks')]_vars

\* deleteChunks of two stored ids whose write failed: the file still lists
\* the ids, the store holds neither.
C9_Witness ==
  /\ call.op = "deleteChunks"
  /\ Len(call.arg) = 2
  /\ Range(call.arg) \subseteq MapKeys(loadFromDisk(disk))
  /\ MapKeys(chunks) \cap Range(call.arg) = {}

\* C10: getRelatedChunks(id, k) returns normally, with at most k results,
\* none of them the chunk id itself; for an id that is not stored the result
\* is empty.
C10_SelfExclusion ==
  call.op = "getRelatedChunks" =>
    LET chunkId == call.arg[1]
        k       == call.arg[2]
    IN /\ call.ret = "ok"
       /\ Len(call.result) <= k
       /\ chunkId \notin resultIds(call.result)
       /\ chunkId \notin MapKeys(chunks) => call.result = <<>>

\* getRelatedChunks(id, k) for a stored id with k the size of the store: the
\* other chunk is the result.
C10_Witness ==
  /\ call.op = "getRelatedChunks"
  /\ call.arg[1] \in MapKeys(chunks)
  /\ call.arg[2] = Len(chunks)
  /\ call.result # <<>>

\* The ids of a Map in iteration order, and the place of an id in it.
keyOrder(map) == [i \in 1..Len(map) |-> map[i].id]

keyIndex(map, id) == CHOOSE i \in 1..Len(map) : map[i].id = id

\* The ids of the items of a snapshot file, in file order.
itemIds(file) == [i \in 1..Len(file.items) |-> file.items[i].id]

\* C11: search and searchByCode list their results by ascending distance, and
\* results of equal distance in the iteration order of the Map.  That order is
\* the order of first insertion: addChunks and updateChunk leave the stored
\* ids in their places and put new ids last, a completed write lists the ids
\* in Map order, and a store constructed on the file takes the file's order.
C11_AscendingStable ==
  [][/\ call'.op \in {"search", "searchByCode"} =>
          \A i, j \in 1..Len(call'.result) :
            i < j =>
              /\ call'.result[i].score <= call'.result[j].score
              /\ call'.result[i].score = call'.result[j].score =>
                   keyIndex(chunks', call'.result[i].chunk.id)
                     < keyIndex(chunks', call'.result[j].chunk.id)
     /\ call'.op \in {"addChunks", "updateChunk"} =>
          SubSeq(keyOrder(chunks'), 1, Len(chunks)) = keyOrder(chunks)
     /\ call'.wrote = "ok" => itemIds(disk') = keyOrder(chunks')
     /\ call'.op = "constructor" => keyOrder(chunks') = itemIds(disk)]_vars

\* A search that returned two chunks of equal distance.
C11_Witness ==
  /\ call.op = "search"
  /\ Len(call.result) = 2
  /\ call.result[1].score = call.result[2].score
  /\ keyIndex(chunks, call.result[1].chunk.id) < keyIndex(chunks, call.result[2].chunk.id)

\* C12: search(query, k) returns normally with exactly min(k, n) results on a
\* store of n chunks, each the chunk stored under its id, no id twice; on an
\* empty store the result is empty.
C12_SearchSize ==
  call.op = "search" =>
    LET k == call.arg[2]
    IN /\ call.ret = "ok"
       /\ Len(call.result) = Min(k, Len(chunks))
       /\ \A i \in 1..Len(call.result) :
            /\ MapHas(chunks, call.result[i].chunk.id)
            /\ MapGet(chunks, call.result[i].chunk.id).chunk = call.result[i].chunk
            /\ \A j \in 1..Len(call.result) :
                 call.result[i].chunk.id = call.result[j].chunk.id => i = j
       /\ chunks = <<>> => call.result = <<>>

\* A search with k below the size of the store: k results of a larger store.
C12_Witness ==
  /\ call.op = "search"
  /\ call.arg[2] = 1
  /\ Len(chunks) = 2
  /\ Len(call.result) = 1

\* The indices of a vocabulary are 0 .. size - 1, no index twice.
denseIndices(vocab) ==
  /\ {vocab[t] : t \in DOMAIN vocab} = 0..(Cardinality(DOMAIN vocab) - 1)
  /\ \A s, t \in DOMAIN vocab : vocab[s] = vocab[t] => s = t

\* C13: within one generator (from one construction of the store to the
\* next) every call leaves each token of the vocabulary in it with the index
\* it had, and the indices are always exactly 0 .. size - 1, so a new token
\* gets the next unused integer.
C13_VocabularyMonotonic ==
  /\ denseIndices(vocabulary)
  /\ [][/\ denseIndices(vocabulary')
        /\ call'.op # "constructor" =>
             \A t \in DOMAIN vocabulary :
               t \in DOMAIN vocabulary' /\ vocabulary'[t] = vocabulary[t]]_vars

\* A search whose query brought a new token into a vocabulary that held
\* others: the token has the last index.
C13_Witness ==
  /\ call.op = "search"
  /\ LET queryTokens == Range(tokenize(call.arg[1]))
     IN /\ Cardinality(DOMAIN vocabulary) > Cardinality(queryTokens)
        /\ \E t \in queryTokens : vocabulary[t] = Cardinality(DOMAIN vocabulary) - 1

\* The IDF table holds ln(N / df) over all of docs for every vocabulary token
\* that occurs in one of them, and nothing else.
idfOverAll(idf, vocab, docs) ==
  /\ DOMAIN idf = {t \in DOMAIN vocab : documentCount(docs, t) > 0}
  /\ \A t \in DOMAIN idf : idf[t] = MathLog(Len(docs), documentCount(docs, t))

\* C14: every text handed to the generator is appended to its documents: a
\* search or searchByCode appends its query, an updateChunk the chunk's text,
\* an addChunks of m chunks their m texts, and the IDF table after the call
\* is computed over the whole list; the other calls leave the list alone.
C14_CorpusGrows ==
  [][/\ call'.op = "search" => documents' = Append(documents, call'.arg[1])
     /\ call'.op = "searchByCode" => documents' = Append(documents, codeQuery(call'.arg[1]))
     /\ call'.op = "updateChunk" =>
          documents' = Append(documents, createChunkText(call'.arg[1]))
     /\ call'.op = "addChunks" =>
          /\ Len(documents') = Len(documents) + Len(call'.arg)
          /\ documents' = documents \o chunkTexts(call'.arg)
     /\ call'.op \in {"search", "searchByCode", "updateChunk", "addChunks"} =>
          idfOverAll(idfScores', vocabulary', documents')
     /\ call'.op \in {"deleteChunks", "clearAll", "getChunkById", "getStats", "initialize"} =>
          documents' = documents]_vars

\* A search after an addChunks of two chunks: three documents, the query last.
C14_Witness ==
  /\ call.op = "search"
  /\ Len(documents) = 3
  /\ documents[3] = call.arg[1]
  /\ documents[1] # call.arg[1]

\* The generator holds a document that is not a string: the text of the call
\* was one, or computeIDF met one.
poisoned(docs) == \E i \in 1..Len(docs) : ~isString(docs[i])

pendingOps == {microtasks[i].op : i \in 1..Len(microtasks)}

\* C16: nothing in the store holds an addChunks back while a search is
\* suspended at its await: the addChunks that starts then changes the
\* generator's documents at once and leaves the suspended search as it is,
\* and the search, when it resumes, compares the embedding it computed
\* before with the stored embeddings.
C16_NoMutationQueue ==
  [][/\ (call'.op = "addChunks" /\ call'.ret = "pending" /\ "search" \in pendingOps) =>
          /\ SubSeq(microtasks', 1, Len(microtasks)) = microtasks
          /\ Len(documents') = Len(documents) + Len(call'.arg)
          /\ documents' # documents
     /\ (call'.op = "search" /\ call'.ret = "ok") =>
          call'.result = rank(chunks, Head(microtasks).queryEmbedding, call'.arg[2])]_vars

\* A search that has resumed while a later addChunks is still suspended: its
\* results are not the ones the generator's vocabulary and IDF table of now
\* give for the query.
C16_Witness ==
  /\ call.op = "search"
  /\ call.ret = "ok"
  /\ pendingOps = {"addChunks"}
  /\ call.result # <<>>
  /\ call.result # rank(chunks, textToVector(call.arg[1], vocabulary, idfScores), call.arg[2])

\* The commands the test 'Should register all commands' looks for.
testedCommands ==
  {"codememory.indexWorkspace", "codememory.explainCode", "codememory.findRelated",
   "codememory.askQuestion", "codememory.showMemoryStatus"}

\* C17: once activate() has come back in a workspace with an open folder,
\* the five commands indexWorkspace, explainCode, findRelated, askQuestion
\* and showMemoryStatus are registered, whatever llmProvider, apiKey and
\* autoIndex are set to.
C17_CommandsRegistered ==
  (workspaceFolder /\ activation # "none") => testedCommands \subseteq registered

\* The ids of the stored chunks that carry the path of the file.
chunksOfFile(map, path) ==
  {map[i].chunk.id : i \in {j \in 1..Len(map) : map[j].chunk.filepath = path}}

\* C18: when the watcher has handled the creation or the change of an
\* indexed file, the store holds of that file exactly the chunks of the parse
\* just made, and when it has handled the deletion of a file the store holds
\* no chunk of it.
C18_IndexFollowsFiles ==
  /\ (handled.event \in {"create", "change"} /\ shouldIndexFile(handled.path)) =>
       chunksOfFile(chunks, handled.path) = {handled.chunks[i].id : i \in 1..Len(handled.chunks)}
  /\ handled.event = "delete" => chunksOfFile(chunks, handled.path) = {}

\* What rounding leaves of the distance between a vector and itself.
nearZero == Unit \div 100

entryIds(map) == {map[i].id : i \in 1..Len(map)}

\* C20: when recordMemoryEntry returns, the entry it returns carries the
\* query, the response, the chunk ids and the feedback it was handed and an
\* id that no entry of the ledger had before, and that entry is in the
\* in-memory ledger and in the ledger file.
C20_RecordedEntry ==
  [][(ledgerCall'.op = "recordMemoryEntry" /\ ledgerCall'.ret = "ok") =>
       /\ Len(ledgerCall'.returned) = 1
       /\ LET entry == ledgerCall'.returned[1]
              given == ledgerCall'.arg
          IN /\ entry.query = given.query
             /\ entry.response = given.response
             /\ entry.relevantChunks = given.relevantChunks
             /\ entry.feedback = given.feedback
             /\ entry.id \notin entryIds(memoryEntries)
             /\ MapHas(memoryEntries', entry.id)
             /\ MapGet(memoryEntries', entry.id) = entry
             /\ \E i \in 1..Len(ledgerFile'.items) : ledgerFile'.items[i].entry.id = entry.id]_vars

\* C21: updateMemoryFeedback(id, feedback) returns normally; for an id of the
\* ledger it sets the feedback of that entry, leaves every other entry and
\* field and the number of entries as they were, and writes the ledger to
\* the file; for any other id the ledger and the file stay as they were.
C21_FeedbackOnly ==
  [][ledgerCall'.op = "updateMemoryFeedback" =>
       LET id == ledgerCall'.arg[1]
           feedback == ledgerCall'.arg[2]
       IN /\ ledgerCall'.ret = "ok"
          /\ IF MapHas(memoryEntries, id)
               THEN /\ Len(memoryEntries') = Len(memoryEntries)
                    /\ \A i \in 1..Len(memoryEntries) :
                         memoryEntries'[i] =
                           IF memoryEntries[i].id = id
                             THEN [memoryEntries[i] EXCEPT !.feedback = String(feedback)]
                             ELSE memoryEntries[i]
                    /\ ledgerFile' = ledgerDocument(memoryEntries')
               ELSE /\ memoryEntries' = memoryEntries
                    /\ ledgerFile' = ledgerFile]_vars

\* C29: recordMemoryEntry and updateMemoryFeedback return normally and leave
\* the file holding the ledger as it is after the call, also on a context
\* manager that loaded its ledger from the file.
C29_SurvivesRestart ==
  /\ ledgerCall.op = "recordMemoryEntry" =>
       (ledgerCall.ret = "ok" /\ ledgerFile = ledgerDocument(memoryEntries))
  /\ ledgerCall.op = "updateMemoryFeedback" =>
       /\ ledgerCall.ret = "ok"
       /\ MapHas(memoryEntries, ledgerCall.arg[1]) => ledgerFile = ledgerDocument(memoryEntries)

keywordsOf(description) == {description.keywords[i] : i \in 1..Len(description.keywords)}

\* C23: the keywords of every SemanticContext are at most 10 and none of them
\* is a stoplist word.
C23_KeywordsCapped ==
  computed.seq > 0 =>
    /\ Len(computed.keywords) <= 10
    /\ keywordsOf(computed) \cap commonWords = {}

\* C23 as the code has it: the chunk's name, type and language come first,
\* unfiltered; after them come at most 10 distinct identifiers of the
\* content, none of them a stoplist word in any letter case; so the list has
\* at most 13 entries.
C23_KeywordsAmended ==
  computed.seq > 0 =>
    LET chunk == computed.chunk
        rest == SubSeq(computed.keywords, 4, Len(computed.keywords))
    IN /\ Len(computed.keywords) >= 3
       /\ Len(computed.keywords) <= 13
       /\ SubSeq(computed.keywords, 1, 3) = <<chunk.name, chunk.type, chunk.language>>
       /\ Len(rest) <= 10
       /\ \A i, j \in 1..Len(rest) : i # j => rest[i] # rest[j]
       /\ \A i \in 1..Len(rest) :
            /\ \E j \in 1..Len(chunk.content) : chunk.content[j] = rest[i]
            /\ \A w \in commonWords : toLowerCase(Chars(rest[i])) # Chars(w)

C23_Witness ==
  /\ computed.seq > 0
  /\ Len(computed.keywords) = 13
  /\ computed.chunk.type = "function"
  /\ \E j \in 1..Len(computed.chunk.content) : computed.chunk.content[j] = "Class"

weight(type) ==
  CASE type = "module" -> 900 [] type = "class" -> 800 [] type = "function" -> 700
    [] type = "method" -> 600 [] type = "variable" -> 400 [] type = "import" -> 300
    [] OTHER -> 500

\* C24: the importance is min(1.0, w(type) + 0.1 for a docstring + 0.1 for
\* more than 50 lines + 0.1 for more than 100 lines), in thousandths, and
\* lies between 0 and 1.
C24_Importance ==
  computed.seq > 0 =>
    LET chunk == computed.chunk
        lines == chunk.endLine - chunk.startLine + 1
        sum == weight(chunk.type)
               + (IF chunk.metadata.docstring.t = "string" /\ chunk.metadata.docstring.v # <<>>
                    THEN 100 ELSE 0)
               + (IF lines > 50 THEN 100 ELSE 0) + (IF lines > 100 THEN 100 ELSE 0)
    IN /\ computed.importance = (IF sum > 1000 THEN 1000 ELSE sum)
       /\ computed.importance >= 0
       /\ computed.importance <= 1000

C24_Witness ==
  /\ computed.seq > 0
  /\ computed.chunk.type = "module"
  /\ truthy(computed.chunk.metadata.docstring)
  /\ computed.chunk.endLine - computed.chunk.startLine + 1 > 100
  /\ computed.importance = 1000

fraction(entry, query) == scoreEntry(entry, wordSet(query))

\* a's score is higher than b's
higher(a, b) == a.over * b.outOf > b.over * a.outOf

\* C22: the related memories of getRelevantContext are at most 5 ledger
\* entries, each with an overlap score above 0.2, in descending score order,
\* and no ledger entry left out scores higher than one returned.
C22_RelatedMemories ==
  [][context'.seq # context.seq /\ context'.ret = "ok" =>
       LET q == context'.query
           got == context'.relatedMemories
       IN /\ Len(got) <= 5
          /\ \A i \in 1..Len(got) :
               /\ MapHas(memoryEntries, got[i].id)
               /\ MapGet(memoryEntries, got[i].id) = got[i]
               /\ 5 * fraction(got[i], q).over > fraction(got[i], q).outOf
          /\ \A i, j \in 1..Len(got) : i # j => got[i].id # got[j].id
          /\ \A i, j \in 1..Len(got) :
               i < j => ~higher(fraction(got[j], q), fraction(got[i], q))
          /\ \A k \in 1..Len(memoryEntries) :
               (\A i \in 1..Len(got) : got[i].id # memoryEntries[k].id) =>
                  \A i \in 1..Len(got) :
                     ~higher(fraction(memoryEntries[k], q), fraction(got[i], q))]_vars

\* Six entries of the ledger score above 0.2, with different scores among
\* them, and five came back.
C22_Witness ==
  /\ context.op = "getRelevantContext"
  /\ context.ret = "ok"
  /\ Len(context.relatedMemories) = 5
  /\ Cardinality({k \in 1..Len(memoryEntries) :
                    5 * fraction(memoryEntries[k], context.query).over
                      > fraction(memoryEntries[k], context.query).outOf}) >= 6
  /\ \E i, j \in 1..5 : higher(fraction(context.relatedMemories[i], context.query),
                               fraction(context.relatedMemories[j], context.query))

\* C26: clearCache empties the semantic-context cache and leaves the chunk
\* map, the snapshot, the ledger in memory and on disk and the project
\* context as they are; the next getRelevantContext computes the context of
\* every chunk it returns anew, from the chunk and the store as they are then.
C26_ClearCache ==
  [][/\ (context'.op = "clearCache" /\ <<context, contextCache>>' # <<context, contextCache>>) =>
          /\ contextCache' = <<>>
          /\ <<chunks, disk, memoryEntries, ledgerFile, projectContext>>'
               = <<chunks, disk, memoryEntries, ledgerFile, projectContext>>
     /\ (context'.seq # context.seq /\ context'.ret = "ok" /\ context.op = "clearCache") =>
          /\ context'.computed = {context'.chunks[i].chunk.id : i \in 1..Len(context'.chunks)}
          /\ \A i \in 1..Len(context'.chunks) :
               LET hit == context'.chunks[i]
               IN /\ hit.context.chunkId = hit.chunk.id
                  /\ hit.context.keywords = extractKeywords(hit.chunk)
                  /\ hit.context.importance = calculateChunkImportance(hit.chunk)
                  /\ \A j \in 1..Len(hit.context.relatedChunks) :
                       /\ MapHas(chunks, hit.context.relatedChunks[j])
                       /\ hit.context.relatedChunks[j] # hit.chunk.id
                  /\ contextCache'[hit.chunk.id] = hit.context]_vars

\* A context dropped by clearCache has been computed again.
C26_Witness ==
  /\ context.op = "getRelevantContext"
  /\ context.ret = "ok"
  /\ context.computed \cap context.dropped # {}

\* C30: once deleteChunks([id]) has returned, no context attached to a result
\* of getRelevantContext lists id among its relatedChunks.
C30_NoDeletedRelated ==
  [][context'.seq # context.seq /\ context'.ret = "ok" =>
       \A i \in 1..Len(context'.chunks) :
         \A j \in 1..Len(context'.chunks[i].context.relatedChunks) :
           MapHas(chunks, context'.chunks[i].context.relatedChunks[j])]_vars

\* C28: once the indexer has added the chunks of a file, the store the
\* context manager and the analyzers search holds them, in the same session.
C28_IndexedVisible ==
  (activation = "initialized" /\ handled.event \in {"create", "change", "index"}
     /\ call.op = "addChunks" /\ call.ret = "ok") =>
    \A i \in 1..Len(handled.chunks) : MapHas(globalVectorStore, handled.chunks[i].id)

\* C27: for every stored embedding and every token of its text, the index the
\* token had when the embedding was computed is the index the store's
\* generator gives the token when it embeds a query, also after a restart.
C27_SameAssignment ==
  \A i \in 1..Len(chunks) :
    \A t \in Range(tokenize(createChunkText(chunks[i].chunk))) :
      t \in DOMAIN vocabulary => vocabulary[t] = seedVocabulary[t]

\* A vector of the model has an entry for every non-zero component; its
\* length is 384 when every component lies at an index below the dimension.
\* It is normalized when its norm is 1 up to what rounding to thousandths
\* leaves.
wellFormed(embedding) ==
  /\ DOMAIN embedding \subseteq 0..(dimension - 1)
  /\ \/ embedding = ZeroVector
     \/ /\ MathSqrt(VSumSquares(embedding)) >= Unit - nearZero
        /\ MathSqrt(VSumSquares(embedding)) <= Unit + nearZero

lastIndex(batch, id) ==
  CHOOSE i \in 1..Len(batch) : batch[i].id = id /\ \A j \in (i + 1)..Len(batch) : batch[j].id # id

embeddingOf(map, id) == MapGet(map, id).embedding

\* C25: every stored id has one embedding, of length 384 and normalized or
\* all zero; it is the one computed by the addChunks or updateChunk that last
\* wrote the id, every other call leaves it alone, and a store constructed on
\* a snapshot has for every id the embedding the snapshot holds for it.
C25_OwnedEmbedding ==
  [][/\ noDuplicateIds(chunks) /\ noDuplicateIds(chunks')
     /\ \A i \in 1..Len(chunks) : wellFormed(chunks[i].embedding)
     /\ \A i \in 1..Len(chunks') : wellFormed(chunks'[i].embedding)
     /\ \A i \in 1..Len(chunks') :
          LET id == chunks'[i].id
          IN IF call'.op = "addChunks" /\ call'.ret = "ok" /\ id \in batchIds(call'.arg)
               THEN chunks'[i].embedding =
                      generateBatch(gen, chunkTexts(call'.arg)).vectors[lastIndex(call'.arg, id)]
             ELSE IF call'.op = "updateChunk" /\ call'.ret = "ok" /\ id = call'.arg[1].id
               THEN chunks'[i].embedding = generate(gen, createChunkText(call'.arg[1])).vector
             ELSE IF call'.op = "constructor"
               THEN \E k \in 1..Len(disk.items) :
                      /\ disk.items[k].id = id
                      /\ disk.items[k].embedding = chunks'[i].embedding
                      /\ \A j \in (k + 1)..Len(disk.items) : disk.items[j].id # id
             ELSE MapHas(chunks, id) /\ embeddingOf(chunks, id) = chunks'[i].embedding]_vars

\* A store constructed on the snapshot an addChunks of this run wrote holds
\* the embedding of the class chunk under c1.
C25_Witness ==
  /\ call.op = "constructor"
  /\ call.seq = 2
  /\ MapHas(chunks, "c1")
  /\ MapGet(chunks, "c1").chunk.type = "class"
  /\ embeddingOf(chunks, "c1") # ZeroVector

\* C34: updateChunk leaves the set of stored ids, the size of the store and
\* the place of every id in the iteration order as they were; an id that was
\* absent stays absent.
C34_UpdateInPlace ==
  [][(call'.op = "updateChunk" /\ call'.ret = "ok") =>
       /\ Len(chunks') = Len(chunks)
       /\ \A i \in 1..Len(chunks) : chunks'[i].id = chunks[i].id]_vars

\* C31: the context attached to a hit describes the chunk as the store holds
\* it at that moment: its summary, keywords and importance are those computed
\* from the stored chunk, also after the chunk was written again.
C31_ContextOfStoredChunk ==
  [][(context'.seq # context.seq /\ context'.ret = "ok") =>
       \A i \in 1..Len(context'.chunks) :
         LET hit == context'.chunks[i]
         IN /\ hit.chunk = MapGet(chunks, hit.chunk.id).chunk
            /\ hit.context.summary = generateChunkSummary(hit.chunk)
            /\ hit.context.keywords = extractKeywords(hit.chunk)
            /\ hit.context.importance = calculateChunkImportance(hit.chunk)]_vars

\* The ids of a batch under which the Map holds the chunk the batch gives the
\* id: the last one of the batch that carries it.
applied(map, batch) ==
  {id \in batchIds(batch) : MapHas(map, id) /\ MapGet(map, id).chunk = lastWithId(batch, id)}

\* The places of a suspended addChunks whose entry, the chunk with the
\* embedding the call computed for it, the Map holds.
appliedEntries(map, task) ==
  {j \in 1..Len(task.arg) : Stored(task.arg[j], task.embeddings[j]) \in Range(map)}

\* C32: the Map a resuming search scans holds an addChunks batch whole or
\* not at all: under every id of the addChunks that returned last it holds
\* the chunk that batch gives the id, and it holds no entry of an addChunks
\* that is still suspended at its await.
C32_WholeBatches ==
  [][(microtasks # <<>> /\ Head(microtasks).op = "search" /\ microtasks' = Tail(microtasks)) =>
       /\ (call.op = "addChunks" /\ call.ret = "ok") =>
            applied(chunks, call.arg) = batchIds(call.arg)
       /\ \A i \in 2..Len(microtasks) :
            microtasks[i].op = "addChunks" =>
              appliedEntries(chunks, microtasks[i]) = {}]_vars

\* A search that started while an addChunks of two chunks was suspended and
\* that scanned, when it resumed, the store with both chunks of the batch.
C32_Witness ==
  /\ call.op = "search"
  /\ call.ret = "ok"
  /\ call.seq = 2
  /\ microtasks = <<>>
  /\ initialized = FALSE
  /\ Len(chunks) = 2
  /\ Len(call.result) = 2
  /\ {call.result[i].chunk : i \in 1..2} = {chunkA2, chunkB}

\* C33: two getProjectContext calls made one after the other, both after the
\* constructor of the ContextManager has returned, yield the same project
\* context, patterns included.
C33_ProjectContextFinal ==
  [][(context.op = "getProjectContext" /\ context'.op = "getProjectContext"
        /\ context'.seq # context.seq) => context'.ret = context.ret]_vars

\* The entries of tf whose token the vocabulary holds and maps to slot d.
entriesAt(tf, vocab, d) ==
  {i \in DOMAIN tf : tf[i].token \in DOMAIN vocab /\ tfidfSlot(tf[i], vocab) = d}

\* The sum of the weights of the entries of tf that map to slot d.
sumAt(tf, totalTokens, vocab, idf, d) ==
  SumOver(entriesAt(tf, vocab, d),
          Tabulate([i \in DOMAIN tf |-> tfidfWeight(tf[i], totalTokens, idf)]))

\* C37: the vector the TF-IDF loop leaves, before the feature slots are
\* written and before normalization, holds at every dimension the sum of
\* tf*idf over the text's tokens that map to it, by vocabulary index or by
\* hash, and every slot a token maps to lies in 0..383.
C37_Accumulates ==
  computed.seq = 1 =>
    LET tokens == tokenize(computed.text)
        tf     == computeTF(tokens)
    IN /\ \A i \in DOMAIN tf : tfidfSlot(tf[i], computed.vocabulary) \in 0..(dimension - 1)
       /\ \A d \in 0..(dimension - 1) :
            VGet(computed.assembled, d)
              = sumAt(tf, Len(tokens), computed.vocabulary, computed.idfScores, d)

\* C35: in every snapshot of the progress handed to the progress callback,
\* over all the indexWorkspace runs of one CodeIndexer, processedFiles lies
\* between 0 and totalFiles, and a snapshot with status completed has
\* processedFiles = totalFiles.
C35_ProgressInRange ==
  \A i \in 1..Len(snapshots) :
    /\ 0 <= snapshots[i].processedFiles
    /\ snapshots[i].processedFiles <= snapshots[i].totalFiles
    /\ snapshots[i].status = "completed" =>
         snapshots[i].processedFiles = snapshots[i].totalFiles

spinnerIcons == Range(frames)

\* C36: the status bar has at most one interval running; none runs after
\* dispose nor while the manager is not loading, and the text is then not a
\* spinner frame: what setLoading(false) wrote is not overwritten by one.
C36_OneInterval ==
  /\ [](/\ Cardinality(statusBar.timers) <= 1
        /\ ~statusBar.isLoading =>
             /\ statusBar.timers = {}
             /\ statusBar.text.icon \notin spinnerIcons)
  /\ [][(statusBar'.disposed /\ ~statusBar.disposed) => statusBar'.timers = {}]_vars

\* setLoading(true) called a second time while the interval of the first
\* was running and had written a frame: one interval runs.
C36_Witness ==
  /\ statusBar.created = 2
  /\ statusBar.isLoading
  /\ Cardinality(statusBar.timers) = 1
  /\ statusBar.text.icon \in spinnerIcons

\* C38: the string buildContext returns holds at most 0.7 x contextWindow =
\* 5600 characters, and the chunks in it are the first of the ranked results,
\* in their order.
C38_FitsBudget ==
  computed.seq = 1 =>
    /\ computed.length * 10 <= contextWindow * 7
    /\ Len(computed.taken) <= Len(computed.chunks)
    /\ computed.taken = SubSeq(computed.chunks, 1, Len(computed.taken))
====
